---------------------------- MODULE Spec2Model ----------------------------
(***************************************************************************)
(* Model of the go-dicom binary codec: the writer (writer.go), the data    *)
(* set reader (part_000) and the element reader / byte cursor they rest  *)
(* on.  Byte strings are sequences of 0..255, Go strings are byte strings, *)
(* uint32 values are kept in 32-bit two's complement (0xFFFFFFFF is -1).   *)
(***************************************************************************)
EXTENDS Integers, Sequences, FiniteSets, TLC

VARIABLES
    phase,   \* what the client has done last
    arg,     \* the elements handed to the writer: the element, metaElems or ds.Elements
    wopts,   \* the WriteOptSet of the write
    ts0,     \* the transfer syntax of the encoder when the write started
    enc,     \* the encoder after the write
    werr,    \* the error the write reported
    file,    \* the bytes handed to ReadDataSet
    ropts,   \* the ReadOptions of the read
    rd,      \* what ReadDataSet returned
    rd2,     \* what ReadDataSet returned for the bytes WriteDataSet wrote
    pcs      \* the last call of ParseSpecificCharacterSet and what it returned

vars == <<phase, arg, wopts, ts0, enc, werr, file, ropts, rd, rd2, pcs>>

-----------------------------------------------------------------------------
(* Bounds of the model *)

\* the longest value list of a leaf element handed to WriteElement
MaxVals == 2
\* the most children of an Item handed to WriteElement
MaxKids == 2
\* the most optional elements of a metaElems list
MaxMeta == 2
\* the most body elements of a data set or of an input file
MaxBody == 2
\* the most names of a list handed to ParseSpecificCharacterSet
MaxNames == 3

-----------------------------------------------------------------------------
(* Bytes, integers, text *)

Cat3(a, b, c) == a \o b \o c

Zeros(n) == [i \in 1..n |-> 0]

RECURSIVE Flatten(_)
Flatten(ss) == IF ss = <<>> THEN <<>> ELSE Head(ss) \o Flatten(Tail(ss))

\* binary.ByteOrder.PutUint16 / PutUint32
U16Bytes(bo, v) ==
    LET lo == v % 256
        hi == (v \div 256) % 256
    IN  IF bo = "LE" THEN <<lo, hi>> ELSE <<hi, lo>>

U32Bytes(bo, v) ==
    LET b0 == v % 256
        b1 == (v \div 256) % 256
        b2 == (v \div 65536) % 256
        b3 == (v \div 16777216) % 256
    IN  IF bo = "LE" THEN <<b0, b1, b2, b3>> ELSE <<b3, b2, b1, b0>>

\* binary.ByteOrder.Uint16 / Uint32 (the latter in two's complement)
U16Of(bo, b) == IF bo = "LE" THEN b[1] + 256 * b[2] ELSE b[2] + 256 * b[1]

U32Of(bo, b) ==
    LET l == IF bo = "LE" THEN b ELSE <<b[4], b[3], b[2], b[1]>>
        top == IF l[4] >= 128 THEN l[4] - 256 ELSE l[4]
    IN  l[1] + 256 * l[2] + 65536 * l[3] + 16777216 * top

\* one hexadecimal / decimal digit as its ASCII code
HexDigit(d) == IF d < 10 THEN 48 + d ELSE 55 + d

\* fmt.Sprintf("%04X", v)
Hex4(v) == <<HexDigit((v \div 4096) % 16), HexDigit((v \div 256) % 16),
             HexDigit((v \div 16) % 16), HexDigit(v % 16)>>

\* fmt.Sprintf("%08X", v) of a uint32
Hex8(v) == Hex4((v \div 65536) % 65536) \o Hex4(v % 65536)

RECURSIVE Dec(_)
Dec(n) == IF n < 10 THEN <<48 + n>> ELSE Dec(n \div 10) \o <<48 + (n % 10)>>

\* fmt.Sprintf("%v", n) of an integer
FmtInt(n) == IF n < 0 THEN <<45>> \o Dec(0 - n) ELSE Dec(n)

-----------------------------------------------------------------------------
(* Element values.  A value is one variant of interface{}: k names the      *)
(* dynamic type, n holds a number, s a string, a byte string, a tag or the  *)
(* offsets of a PixelDataInfo, f its frames, el the *Element of a child.    *)

Val(k, n, s, f, el) == [k |-> k, n |-> n, s |-> s, f |-> f, el |-> el]
Str(s) == Val("str", 0, s, <<>>, <<>>)
Bytes(b) == Val("bytes", 0, b, <<>>, <<>>)
U16(x) == Val("u16", x, <<>>, <<>>, <<>>)
U32(x) == Val("u32", x, <<>>, <<>>, <<>>)
I16(x) == Val("i16", x, <<>>, <<>>, <<>>)
I32(x) == Val("i32", x, <<>>, <<>>, <<>>)
\* a float is held as its bit pattern, a float64 as its low and high word
F32(bits) == Val("f32", bits, <<>>, <<>>, <<>>)
F64(lo, hi) == Val("f64", 0, <<lo, hi>>, <<>>, <<>>)
TagV(t) == Val("tag", 0, t, <<>>, <<>>)
Sub(e) == Val("elem", 0, <<>>, <<>>, <<e>>)
Pix(offsets, frames) == Val("pix", 0, offsets, frames, <<>>)

\* Element{Tag, VR, UndefinedLength, Value}
Elem(tag, vr, undef, value) == [tag |-> tag, vr |-> vr, undef |-> undef, value |-> value]

-----------------------------------------------------------------------------
(* Tags and the tag dictionary (dicomtag) *)

MetadataGroup == 2
itemSeqGroup == 65534
undefinedLength == -1

FileMetaInformationGroupLength == <<2, 0>>
FileMetaInformationVersion == <<2, 1>>
MediaStorageSOPClassUID == <<2, 2>>
MediaStorageSOPInstanceUID == <<2, 3>>
TransferSyntaxUID == <<2, 16>>
ImplementationClassUID == <<2, 18>>
ImplementationVersionName == <<2, 19>>
SourceApplicationEntityTitle == <<2, 22>>
SpecificCharacterSet == <<8, 5>>
ReferencedStudySequence == <<8, 4368>>
PrivateCreator == <<9, 16>>
PatientName == <<16, 16>>
PatientID == <<16, 32>>
PatientWeight == <<16, 4144>>
Rows == <<40, 16>>
PixelData == <<32736, 16>>
Item == <<65534, 57344>>
ItemDelimitationItem == <<65534, 57357>>
SequenceDelimitationItem == <<65534, 57565>>

\* the dictionary: tag, VR
TagDict ==
    << <<FileMetaInformationGroupLength, "UL">>, <<FileMetaInformationVersion, "OB">>,
       <<MediaStorageSOPClassUID, "UI">>, <<MediaStorageSOPInstanceUID, "UI">>,
       <<TransferSyntaxUID, "UI">>, <<ImplementationClassUID, "UI">>,
       <<ImplementationVersionName, "SH">>, <<SourceApplicationEntityTitle, "AE">>,
       <<SpecificCharacterSet, "CS">>, <<ReferencedStudySequence, "SQ">>,
       <<PatientName, "PN">>, <<PatientID, "LO">>, <<PatientWeight, "DS">>,
       <<Rows, "US">>, <<PixelData, "OW">>, <<Item, "NA">>,
       <<ItemDelimitationItem, "NA">>, <<SequenceDelimitationItem, "NA">> >>

\* dicomtag.Find: the VR of a known tag, "" when the tag is not in the dictionary
FindVR(t) ==
    IF \E i \in 1..Len(TagDict) : TagDict[i][1] = t
    THEN TagDict[CHOOSE i \in 1..Len(TagDict) : TagDict[i][1] = t][2]
    ELSE ""

\* dicomtag.GetVRKind: the coarse category of a VR
GetVRKind(t, vr) ==
    IF vr \in {"US", "SS", "UL", "SL"} THEN "integer"
    ELSE IF vr \in {"FL", "FD", "OF", "OD"} THEN "float"
    ELSE IF vr \in {"OB", "OW", "OL", "UN"} THEN "binary"
    ELSE IF vr \in {"SQ", "NA"} THEN "sequence"
    ELSE "string"

\* the two ASCII letters of a VR
VRTable ==
    << <<"AE", <<65, 69>> >>, <<"AT", <<65, 84>> >>, <<"CS", <<67, 83>> >>,
       <<"DS", <<68, 83>> >>, <<"FL", <<70, 76>> >>, <<"FD", <<70, 68>> >>,
       <<"LO", <<76, 79>> >>, <<"NA", <<78, 65>> >>, <<"OB", <<79, 66>> >>,
       <<"OD", <<79, 68>> >>, <<"OF", <<79, 70>> >>, <<"OL", <<79, 76>> >>,
       <<"OW", <<79, 87>> >>, <<"PN", <<80, 78>> >>, <<"SH", <<83, 72>> >>,
       <<"SL", <<83, 76>> >>, <<"SQ", <<83, 81>> >>, <<"SS", <<83, 83>> >>,
       <<"UC", <<85, 67>> >>, <<"UI", <<85, 73>> >>, <<"UL", <<85, 76>> >>,
       <<"UN", <<85, 78>> >>, <<"UR", <<85, 82>> >>, <<"US", <<85, 83>> >>,
       <<"UT", <<85, 84>> >>, <<"AS", <<65, 83>> >>, <<"DA", <<68, 65>> >>,
       <<"DT", <<68, 84>> >>, <<"TM", <<84, 77>> >>, <<"LT", <<76, 84>> >>,
       <<"ST", <<83, 84>> >>, <<"IS", <<73, 83>> >> >>

VRBytes(vr) == VRTable[CHOOSE i \in 1..Len(VRTable) : VRTable[i][1] = vr][2]

VRName(b) ==
    IF \E i \in 1..Len(VRTable) : VRTable[i][2] = b
    THEN VRTable[CHOOSE i \in 1..Len(VRTable) : VRTable[i][2] = b][1]
    ELSE "??"

\* the VRs whose Explicit-VR header has two reserved bytes and a 4-byte length
LongVRs == {"NA", "OB", "OD", "OF", "OL", "OW", "SQ", "UN", "UC", "UR", "UT"}

-----------------------------------------------------------------------------
(* dicomio.Encoder: output bytes, sticky error, transfer-syntax stack.     *)
(* hdrs records every element header the encoder was asked to emit, with   *)
(* the offsets of its first byte and of the first byte after it.  panic is *)
(* set when a doassert fails or an index is out of range: the call unwinds *)
(* and nothing more is written.                                            *)

NewBytesEncoder(bo, implicit) ==
    [out |-> <<>>, err |-> "", bo |-> bo, implicit |-> implicit, old |-> <<>>,
     hdrs |-> <<>>, panic |-> FALSE]

\* dicomio.NewEncoder(out, nil, dicomio.UnknownVR)
NewEncoder == NewBytesEncoder("nil", "UnknownVR")

Panic(e) == [e EXCEPT !.panic = TRUE]

SetError(e, msg) == IF e.panic \/ e.err # "" THEN e ELSE [e EXCEPT !.err = msg]

WriteBytes(e, b) == IF e.panic THEN e ELSE [e EXCEPT !.out = @ \o b]

WriteZeros(e, n) == WriteBytes(e, Zeros(n))

WriteUInt16(e, v) == WriteBytes(e, U16Bytes(e.bo, v))

WriteUInt32(e, v) == WriteBytes(e, U32Bytes(e.bo, v))

PushTransferSyntax(e, bo, implicit) ==
    [e EXCEPT !.old = Append(@, <<e.bo, e.implicit>>), !.bo = bo, !.implicit = implicit]

PopTransferSyntax(e) ==
    [e EXCEPT !.bo = e.old[Len(e.old)][1], !.implicit = e.old[Len(e.old)][2],
              !.old = SubSeq(@, 1, Len(@) - 1)]

RECURSIVE ShiftHdrs(_, _)
ShiftHdrs(hs, n) ==
    IF hs = <<>> THEN <<>>
    ELSE <<[Head(hs) EXCEPT !.at = @ + n, !.end = @ + n]>> \o ShiftHdrs(Tail(hs), n)

\* e.WriteBytes(sube.Bytes()): the sub-buffer's bytes, its headers with them
WriteSub(e, sube) ==
    IF e.panic THEN e
    ELSE [e EXCEPT !.out = @ \o sube.out,
                   !.hdrs = @ \o ShiftHdrs(sube.hdrs, Len(e.out))]

-----------------------------------------------------------------------------
(* writer.go *)

encodeElementHeader(e, tag, vr, vl) ==
    LET Emit(tagb, rest, field) ==
            [e EXCEPT !.out = Cat3(@, tagb, rest),
                      !.hdrs = Append(@, [tag |-> tag, vr |-> vr, vl |-> vl, field |-> field,
                                           at |-> Len(e.out),
                                           end |-> Len(e.out) + Len(tagb) + Len(rest)])]
        Header(implicit, tagb) ==
            IF implicit = "ExplicitVR"
            THEN IF vr = "" THEN Panic(WriteBytes(e, tagb))
                 ELSE IF vr \in LongVRs
                 THEN Emit(tagb, Cat3(VRBytes(vr), Zeros(2), U32Bytes(e.bo, vl)), vl)
                 ELSE Emit(tagb, VRBytes(vr) \o U16Bytes(e.bo, vl % 65536), vl % 65536)
            ELSE IF implicit # "ImplicitVR" THEN Panic(WriteBytes(e, tagb))
            ELSE Emit(tagb, U32Bytes(e.bo, vl), vl)
    IN  IF e.panic THEN e
        ELSE IF ~(vl = undefinedLength \/ vl % 2 = 0) THEN Panic(e)
        ELSE Header(IF tag[1] = itemSeqGroup THEN "ImplicitVR" ELSE e.implicit,
                    U16Bytes(e.bo, tag[1]) \o U16Bytes(e.bo, tag[2]))

writeRawItem(e, data) ==
    WriteBytes(encodeElementHeader(e, Item, "NA", Len(data)), data)

writeBasicOffsetTable(e, offsets) ==
    writeRawItem(e, Flatten([i \in 1..Len(offsets) |-> U32Bytes(e.bo, offsets[i])]))

\* verifyVROrDefault that lets a VR of another kind pass
verifyVROrDefaultLax(t, vr, opts) ==
    IF vr # "" /\ opts.SkipVRVerification THEN [vr |-> vr, err |-> ""]
    ELSE IF FindVR(t) = "" THEN [vr |-> IF vr = "" THEN "UN" ELSE vr, err |-> ""]
    ELSE IF vr = "" THEN [vr |-> FindVR(t), err |-> ""]
    ELSE [vr |-> vr, err |-> ""]

verifyVROrDefault(t, vr, opts) ==
    IF vr # "" /\ opts.SkipVRVerification THEN [vr |-> vr, err |-> ""]
    ELSE IF FindVR(t) = "" THEN [vr |-> IF vr = "" THEN "UN" ELSE vr, err |-> ""]
    ELSE IF vr = "" THEN [vr |-> FindVR(t), err |-> ""]
    ELSE IF ~opts.SkipVRVerification /\ FindVR(t) # vr
            /\ GetVRKind(t, FindVR(t)) # GetVRKind(t, vr)
    THEN [vr |-> "", err |-> "VR mismatch"]
    ELSE [vr |-> vr, err |-> ""]

\* the text a value contributes to a UI / text payload (writer.go 366-383, 400-417)
FmtValue(v) ==
    CASE v.k = "str" -> v.s
      [] v.k = "tag" -> Hex4(v.s[1]) \o Hex4(v.s[2])
      [] v.k = "u32" -> Hex8(v.n)
      [] v.k = "bytes" -> v.s
      [] v.k \in {"u16", "i16", "i32"} -> FmtInt(v.n)

\* s := ""; for i, value := range elem.Value { if i > 0 { s += "\\" }; s += substr }
RECURSIVE JoinValues(_, _)
JoinValues(values, i) ==
    IF i > Len(values) THEN <<>>
    ELSE (IF i > 1 THEN <<92>> ELSE <<>>) \o FmtValue(values[i]) \o JoinValues(values, i + 1)

\* the fixed-width numeric VRs: the value kind each expects and its width
NumKind(vr) ==
    CASE vr = "US" -> "u16" [] vr = "UL" -> "u32" [] vr = "SL" -> "i32"
      [] vr = "SS" -> "i16" [] vr \in {"FL", "OF"} -> "f32" [] vr \in {"FD", "OD"} -> "f64"

NumBytes(bo, v) ==
    CASE v.k \in {"u16", "i16"} -> U16Bytes(bo, v.n)
      [] v.k \in {"u32", "i32", "f32"} -> U32Bytes(bo, v.n)
      [] v.k = "f64" -> U32Bytes(bo, IF bo = "LE" THEN v.s[1] ELSE v.s[2])
                        \o U32Bytes(bo, IF bo = "LE" THEN v.s[2] ELSE v.s[1])

\* the loop of a numeric VR: a value of another type sets an error on e and is
\* skipped; r is [e, sube]
RECURSIVE WriteNumbers(_, _, _, _)
WriteNumbers(r, vr, values, i) ==
    IF i > Len(values) THEN r
    ELSE IF values[i].k # NumKind(vr)
    THEN WriteNumbers([r EXCEPT !.e = SetError(@, "value type mismatch")], vr, values, i + 1)
    ELSE WriteNumbers([r EXCEPT !.sube = WriteBytes(@, NumBytes(r.sube.bo, values[i]))],
                      vr, values, i + 1)

\* OW: the bytes are read as native (little-endian) uint16 and written in the
\* encoder's byte order
RECURSIVE WriteWords(_, _)
WriteWords(sube, bytes) ==
    IF Len(bytes) < 2 THEN sube
    ELSE WriteWords(WriteUInt16(sube, U16Of("LE", bytes)), SubSeq(bytes, 3, Len(bytes)))

\* the value of a leaf element (writer.go 266-423); r is [e, sube]
WriteLeafValue(r, elem, vr) ==
    LET Padded(s, pad) ==
            [r EXCEPT !.sube = WriteBytes(@, s \o (IF Len(s) % 2 = 1 THEN <<pad>> ELSE <<>>))]
    IN  IF vr \in {"US", "UL", "SL", "SS", "FL", "OF", "FD", "OD"}
        THEN WriteNumbers(r, vr, elem.value, 1)
        ELSE IF vr \in {"OW", "OB"}
        THEN IF Len(elem.value) # 1 THEN [r EXCEPT !.e = SetError(@, "expect a single value")]
             ELSE IF elem.value[1].k # "bytes"
             THEN [r EXCEPT !.e = SetError(@, "expect a binary string")]
             ELSE IF vr = "OW"
             THEN IF Len(elem.value[1].s) % 2 # 0
                  THEN [r EXCEPT !.e = SetError(@, "expect even length")]
                  ELSE [r EXCEPT !.sube = WriteWords(@, elem.value[1].s)]
             ELSE Padded(elem.value[1].s, 0)
        ELSE IF vr = "UI" THEN Padded(JoinValues(elem.value, 1), 0)
        ELSE IF elem.undef /\ vr = "UN" THEN r
        ELSE Padded(JoinValues(elem.value, 1), 32)

RECURSIVE WriteElement(_, _, _)

\* the frames of encapsulated pixel data (writer.go 189-191)
RECURSIVE WriteFrames(_, _, _)
WriteFrames(e, frames, i) ==
    IF i > Len(frames) THEN e ELSE WriteFrames(writeRawItem(e, frames[i]), frames, i + 1)

\* writer.go 177-199
WritePixelData(e, elem, vr) ==
    LET Encapsulated(e2, image) ==
            encodeElementHeader(
                WriteFrames(writeBasicOffsetTable(
                                encodeElementHeader(e2, elem.tag, vr, undefinedLength),
                                image.offsets),
                            image.frames, 1),
                SequenceDelimitationItem, "", 0)
        Native(e2, image) ==
            IF Len(image.frames) # 1 THEN Panic(e2)
            ELSE WriteBytes(encodeElementHeader(e2, elem.tag, vr, Len(image.frames[1])),
                            image.frames[1])
        Image(e2, image) ==
            IF elem.undef THEN Encapsulated(e2, image) ELSE Native(e2, image)
        Checked(e1) ==
            IF Len(elem.value) = 0 THEN Panic(e1)
            ELSE IF elem.value[1].k = "pix"
            THEN Image(e1, [offsets |-> elem.value[1].s, frames |-> elem.value[1].f])
            ELSE Image(SetError(e1, "PixelData: PixelDataInfo"),
                       [offsets |-> <<>>, frames |-> <<>>])
    IN  Checked(IF Len(elem.value) # 1 THEN SetError(e, "PixelData: one value") ELSE e)

\* the children of a SQ (items = TRUE) or an Item, written to w, errors of a bad
\* child set on e; r is [e, w, ok], w = e when same (the undefined-length form)
RECURSIVE WriteChildren(_, _, _, _, _, _)
WriteChildren(e, w, same, items, values, opts) ==
    LET Rest(w2) ==
            WriteChildren(IF same THEN w2 ELSE e, w2, same, items, Tail(values), opts)
    IN  IF values = <<>> \/ e.panic \/ w.panic THEN [e |-> e, w |-> w, ok |-> TRUE]
        ELSE IF Head(values).k # "elem" \/ (items /\ Head(values).el[1].tag # Item)
        THEN [e |-> SetError(e, "bad child"), w |-> w, ok |-> FALSE]
        ELSE Rest(WriteElement(IF same THEN e ELSE w, Head(values).el[1], opts))

\* WriteContainer that closes every container with an ItemDelimitationItem
WriteContainerOneDelimiter(e, elem, vr, opts) ==
    LET Delimited(r) ==
            IF ~r.ok THEN r.e ELSE encodeElementHeader(r.e, ItemDelimitationItem, "", 0)
        Sized(r) ==
            IF ~r.ok THEN r.e
            ELSE IF r.w.panic THEN Panic(r.e)
            ELSE IF r.w.err # "" THEN SetError(r.e, r.w.err)
            ELSE WriteSub(encodeElementHeader(r.e, elem.tag, vr, Len(r.w.out)), r.w)
        Children(h, w) == WriteChildren(h, w, elem.undef, vr = "SQ", elem.value, opts)
        Opened(h) == Delimited(Children(h, h))
    IN  IF elem.undef THEN Opened(encodeElementHeader(e, elem.tag, vr, undefinedLength))
        ELSE Sized(Children(e, NewBytesEncoder(e.bo, e.implicit)))

\* writer.go 200-259
WriteContainer(e, elem, vr, opts) ==
    LET Delimited(r) ==
            IF ~r.ok THEN r.e
            ELSE encodeElementHeader(r.e,
                     IF vr = "SQ" THEN SequenceDelimitationItem ELSE ItemDelimitationItem,
                     "", 0)
        Sized(r) ==
            IF ~r.ok THEN r.e
            ELSE IF r.w.panic THEN Panic(r.e)
            ELSE IF r.w.err # "" THEN SetError(r.e, r.w.err)
            ELSE WriteSub(encodeElementHeader(r.e, elem.tag, vr, Len(r.w.out)), r.w)
        Children(h, w) == WriteChildren(h, w, elem.undef, vr = "SQ", elem.value, opts)
        Opened(h) == Delimited(Children(h, h))
    IN  IF elem.undef THEN Opened(encodeElementHeader(e, elem.tag, vr, undefinedLength))
        ELSE Sized(Children(e, NewBytesEncoder(e.bo, e.implicit)))

\* writer.go 260-431
WriteLeaf(e, elem, vr) ==
    LET Of(r) ==
            IF r.sube.err # "" THEN SetError(r.e, r.sube.err)
            ELSE WriteSub(encodeElementHeader(r.e, elem.tag, vr, Len(r.sube.out)), r.sube)
    IN  IF elem.undef /\ vr # "UN" THEN SetError(e, "undefined-length element not supported")
        ELSE Of(WriteLeafValue([e |-> e, sube |-> NewBytesEncoder(e.bo, e.implicit)],
                               elem, vr))

WriteElement(e, elem, opts) ==
    LET Of(v) ==
            IF v.err # "" THEN SetError(e, v.err)
            ELSE IF elem.tag = PixelData THEN WritePixelData(e, elem, v.vr)
            ELSE IF v.vr \in {"SQ", "NA"} THEN WriteContainer(e, elem, v.vr, opts)
            ELSE WriteLeaf(e, elem, v.vr)
    IN  IF e.panic THEN e ELSE Of(verifyVROrDefault(elem.tag, elem.vr, opts))

-----------------------------------------------------------------------------
(* Text: Go ranges over a string rune by rune (UTF-8) *)

Cont(b) == b >= 128 /\ b <= 191

\* utf8.DecodeRuneInString: [r, n]; an invalid byte decodes to U+FFFD, width 1
DecodeRune(s) ==
    LET b == [i \in 1..4 |-> IF i <= Len(s) THEN s[i] ELSE 0]
    IN  IF b[1] < 128 THEN [r |-> b[1], n |-> 1]
        ELSE IF b[1] >= 194 /\ b[1] <= 223 /\ Cont(b[2])
        THEN [r |-> (b[1] - 192) * 64 + (b[2] - 128), n |-> 2]
        ELSE IF b[1] >= 224 /\ b[1] <= 239 /\ Cont(b[2]) /\ Cont(b[3])
                /\ (b[1] = 224 => b[2] >= 160) /\ (b[1] = 237 => b[2] <= 159)
        THEN [r |-> (b[1] - 224) * 4096 + (b[2] - 128) * 64 + (b[3] - 128), n |-> 3]
        ELSE IF b[1] >= 240 /\ b[1] <= 244 /\ Cont(b[2]) /\ Cont(b[3]) /\ Cont(b[4])
                /\ (b[1] = 240 => b[2] >= 144) /\ (b[1] = 244 => b[2] <= 143)
        THEN [r |-> (b[1] - 240) * 262144 + (b[2] - 128) * 4096 + (b[3] - 128) * 64
                    + (b[4] - 128), n |-> 4]
        ELSE [r |-> 65533, n |-> 1]

\* string(r)
EncodeRune(r) ==
    IF r < 128 THEN <<r>>
    ELSE IF r < 2048 THEN <<192 + (r \div 64), 128 + (r % 64)>>
    ELSE IF r < 65536 THEN <<224 + (r \div 4096), 128 + ((r \div 64) % 64), 128 + (r % 64)>>
    ELSE <<240 + (r \div 262144), 128 + ((r \div 4096) % 64), 128 + ((r \div 64) % 64),
           128 + (r % 64)>>

\* unicode.IsPrint on the runes the model's texts hold: ASCII, Latin-1, Cyrillic
\* and U+FFFD (controls, DEL, NBSP and the soft hyphen are not printable)
IsPrint(r) ==
    IF r < 128 THEN r >= 32 /\ r <= 126
    ELSE IF r <= 255 THEN r >= 161 /\ r # 173
    ELSE TRUE

RECURSIVE FilterNonPrintable(_)
FilterNonPrintable(s) ==
    IF s = <<>> THEN <<>>
    ELSE LET d == DecodeRune(s)
         IN  (IF IsPrint(d.r) \/ d.r = 32 \/ d.r = 9 THEN EncodeRune(d.r) ELSE <<>>)
             \o FilterNonPrintable(SubSeq(s, d.n + 1, Len(s)))

-----------------------------------------------------------------------------
(* Element helpers (element.go) *)

\* FindElementByTag: the index of the first element with the tag, 0 when none
FindElementByTag(elems, tag) ==
    IF \E i \in 1..Len(elems) : elems[i].tag = tag
    THEN CHOOSE i \in 1..Len(elems) :
             elems[i].tag = tag /\ \A j \in 1..(i - 1) : elems[j].tag # tag
    ELSE 0

\* MustNewElement(tag, value): one value, the dictionary's VR
MustNewElement(tag, value) == Elem(tag, FindVR(tag), FALSE, <<value>>)

\* Element.GetString: the single string value, else an error
GetString(elem) ==
    IF Len(elem.value) = 1 /\ elem.value[1].k = "str"
    THEN [s |-> elem.value[1].s, err |-> ""]
    ELSE [s |-> <<>>, err |-> "not a single string"]

-----------------------------------------------------------------------------
(* Transfer syntaxes (dicomio.ParseTransferSyntaxUID) *)

ImplicitVRLittleEndian ==
    <<49, 46, 50, 46, 56, 52, 48, 46, 49, 48, 48, 48, 56, 46, 49, 46, 50>>
ExplicitVRLittleEndian == ImplicitVRLittleEndian \o <<46, 49>>
ExplicitVRBigEndian == ImplicitVRLittleEndian \o <<46, 50>>
JPEGBaseline == ImplicitVRLittleEndian \o <<46, 52, 46, 53, 48>>

ParseTransferSyntaxUID(uid) ==
    IF uid = ImplicitVRLittleEndian THEN [bo |-> "LE", implicit |-> "ImplicitVR", err |-> ""]
    ELSE IF uid = ExplicitVRLittleEndian \/ uid = JPEGBaseline
    THEN [bo |-> "LE", implicit |-> "ExplicitVR", err |-> ""]
    ELSE IF uid = ExplicitVRBigEndian
    THEN [bo |-> "BE", implicit |-> "ExplicitVR", err |-> ""]
    ELSE [bo |-> "nil", implicit |-> "UnknownVR", err |-> "unknown transfer syntax"]

\* part_000 326-336 getTransferSyntax
getTransferSyntax(elems) ==
    LET Of(g) ==
            IF g.err # "" THEN [bo |-> "nil", implicit |-> "UnknownVR", err |-> g.err]
            ELSE ParseTransferSyntaxUID(FilterNonPrintable(g.s))
        Found(i) ==
            IF i = 0 THEN [bo |-> "nil", implicit |-> "UnknownVR", err |-> "not found"]
            ELSE Of(GetString(elems[i]))
    IN  Found(FindElementByTag(elems, TransferSyntaxUID))

-----------------------------------------------------------------------------
(* writer.go: the file header and the data set *)

GoDICOMImplementationClassUID ==
    <<49, 46, 50, 46, 56, 50, 54, 46, 48, 46, 49, 46, 51, 54, 56, 48, 48, 52, 51, 46, 57,
      46, 55, 49, 51, 51, 46, 49, 46, 49>>
GoDICOMImplementationVersionName == <<71, 79, 68, 73, 67, 79, 77, 95, 49, 95, 49>>
DICM == <<68, 73, 67, 77>>

\* writeRequiredMetaElem that lets a missing element pass
writeRequiredMetaElemLenient(sub, metaElems, tag, opts) ==
    LET Found(i) == IF i # 0 THEN WriteElement(sub, metaElems[i], opts) ELSE sub
    IN  Found(FindElementByTag(metaElems, tag))

\* writeRequiredMetaElem
writeRequiredMetaElem(sub, metaElems, tag, opts) ==
    LET Found(i) ==
            IF i # 0 THEN WriteElement(sub, metaElems[i], opts)
            ELSE SetError(sub, "required meta element not found")
    IN  Found(FindElementByTag(metaElems, tag))

\* writeOptionalMetaElem
writeOptionalMetaElem(sub, metaElems, tag, defaultValue, opts) ==
    LET Found(i) ==
            WriteElement(sub, IF i # 0 THEN metaElems[i] ELSE MustNewElement(tag, defaultValue),
                         opts)
    IN  Found(FindElementByTag(metaElems, tag))

\* tagsUsed after the six fixed meta elements are written (writer.go 55-78)
tagsUsed ==
    {FileMetaInformationGroupLength, FileMetaInformationVersion, MediaStorageSOPClassUID,
     MediaStorageSOPInstanceUID, TransferSyntaxUID, ImplementationClassUID,
     ImplementationVersionName}

\* writer.go 79-85: the other group-2 elements
RECURSIVE WriteOtherMeta(_, _, _, _)
WriteOtherMeta(sub, metaElems, i, opts) ==
    IF i > Len(metaElems) THEN sub
    ELSE WriteOtherMeta(
             IF metaElems[i].tag[1] = MetadataGroup /\ metaElems[i].tag \notin tagsUsed
             THEN WriteElement(sub, metaElems[i], opts) ELSE sub,
             metaElems, i + 1, opts)

\* writer.go 73-78: the six meta elements written first, in this order
FixedMeta ==
    << [tag |-> FileMetaInformationVersion, required |-> FALSE,
        defaultValue |-> Bytes(<<48, 32, 49>>)],
       [tag |-> MediaStorageSOPClassUID, required |-> TRUE, defaultValue |-> Str(<<>>)],
       [tag |-> MediaStorageSOPInstanceUID, required |-> TRUE, defaultValue |-> Str(<<>>)],
       [tag |-> TransferSyntaxUID, required |-> TRUE, defaultValue |-> Str(<<>>)],
       [tag |-> ImplementationClassUID, required |-> FALSE,
        defaultValue |-> Str(GoDICOMImplementationClassUID)],
       [tag |-> ImplementationVersionName, required |-> FALSE,
        defaultValue |-> Str(GoDICOMImplementationVersionName)] >>

RECURSIVE WriteFixedMeta(_, _, _, _)
WriteFixedMeta(sub, metaElems, i, opts) ==
    IF i > Len(FixedMeta) THEN sub
    ELSE WriteFixedMeta(
             IF FixedMeta[i].required
             THEN writeRequiredMetaElem(sub, metaElems, FixedMeta[i].tag, opts)
             ELSE writeOptionalMetaElem(sub, metaElems, FixedMeta[i].tag,
                                        FixedMeta[i].defaultValue, opts),
             metaElems, i + 1, opts)

\* the meta block in the sub-encoder (writer.go 54-85)
MetaBlock(metaElems, opts) ==
    WriteOtherMeta(WriteFixedMeta(NewBytesEncoder("LE", "ExplicitVR"), metaElems, 1, opts),
                   metaElems, 1, opts)

\* WriteFileHeader that keeps the transfer syntax it is called with
WriteFileHeaderKeepSyntax(e, metaElems, opts) ==
    LET Output(e1, sub) ==
            IF sub.panic THEN Panic(e1)
            ELSE IF sub.err # "" THEN SetError(e1, sub.err)
            ELSE WriteSub(
                     WriteElement(WriteBytes(WriteZeros(e1, 128), DICM),
                                  MustNewElement(FileMetaInformationGroupLength,
                                                 U32(Len(sub.out))), opts),
                     sub)
    IN  PopTransferSyntax(Output(PushTransferSyntax(e, e.bo, e.implicit),
                                 MetaBlock(metaElems, opts)))

WriteFileHeader(e, metaElems, opts) ==
    LET Output(e1, sub) ==
            IF sub.panic THEN Panic(e1)
            ELSE IF sub.err # "" THEN SetError(e1, sub.err)
            ELSE WriteSub(
                     WriteElement(WriteBytes(WriteZeros(e1, 128), DICM),
                                  MustNewElement(FileMetaInformationGroupLength,
                                                 U32(Len(sub.out))), opts),
                     sub)
    IN  PopTransferSyntax(Output(PushTransferSyntax(e, "LE", "ExplicitVR"),
                                 MetaBlock(metaElems, opts)))

\* for _, elem := range ds.Elements { if elem.Tag.Group == MetadataGroup { ... } }
SelectMeta(elems) == SelectSeq(elems, LAMBDA el : el.tag[1] = MetadataGroup)

\* writer.go 462-467
RECURSIVE WriteBody(_, _, _, _)
WriteBody(e, elems, i, opts) ==
    IF i > Len(elems) THEN e
    ELSE WriteBody(
             IF elems[i].tag[1] # MetadataGroup /\ elems[i].tag[1] % 2 = 0
             THEN WriteElement(e, elems[i], opts) ELSE e,
             elems, i + 1, opts)

\* WriteDataSet: [e, err], err the error returned
WriteDataSet(elems, opts) ==
    LET Result(e2) == [e |-> e2, err |-> e2.err]
        Body(e1, ts) ==
            IF ts.err # "" THEN [e |-> e1, err |-> ts.err]
            ELSE Result(PopTransferSyntax(
                     WriteBody(PushTransferSyntax(e1, ts.bo, ts.implicit), elems, 1, opts)))
        AfterHeader(e1) ==
            IF e1.panic \/ e1.err # "" THEN [e |-> e1, err |-> e1.err]
            ELSE Body(e1, getTransferSyntax(elems))
    IN  AfterHeader(WriteFileHeader(NewEncoder, SelectMeta(elems), opts))

-----------------------------------------------------------------------------
(* dicomio.Decoder: the input, the bytes consumed, the end of the region    *)
(* being read, a sticky error (reads after it return zeros and consume      *)
(* nothing), the transfer syntax and the installed coding system.           *)

NewDecoder(in, bo, implicit) ==
    [in |-> in, pos |-> 0, limit |-> Len(in), err |-> "", bo |-> bo,
     implicit |-> implicit, cs |-> <<"", "", "">>]

DSetError(d, msg) == IF d.err # "" THEN d ELSE [d EXCEPT !.err = msg]

\* Decoder.EOF: nothing left to read, or the error is set
EOF(d) == d.err # "" \/ d.pos >= d.limit

\* read n bytes: [d, b]
ReadBytes(d, n) ==
    IF d.err # "" THEN [d |-> d, b |-> Zeros(IF n > 0 /\ n <= 8 THEN n ELSE 0)]
    ELSE IF n < 0 \/ d.pos + n > d.limit
    THEN [d |-> DSetError(d, "truncated"), b |-> Zeros(IF n > 0 /\ n <= 8 THEN n ELSE 0)]
    ELSE [d |-> [d EXCEPT !.pos = @ + n], b |-> SubSeq(d.in, d.pos + 1, d.pos + n)]

ReadUInt16(d) ==
    LET Of(r) == [d |-> r.d, v |-> U16Of(d.bo, r.b)]
    IN  Of(ReadBytes(d, 2))

ReadUInt32(d) ==
    LET Of(r) == [d |-> r.d, v |-> U32Of(d.bo, r.b)]
    IN  Of(ReadBytes(d, 4))

\* strings.TrimRight(s, cutset)
RECURSIVE TrimRight(_, _)
TrimRight(s, cut) ==
    IF s # <<>> /\ s[Len(s)] \in cut THEN TrimRight(SubSeq(s, 1, Len(s) - 1), cut) ELSE s

RECURSIVE TrimLeft(_, _)
TrimLeft(s, cut) == IF s # <<>> /\ s[1] \in cut THEN TrimLeft(Tail(s), cut) ELSE s

\* strings.Split(s, sep) for a one-byte separator
RECURSIVE SplitAcc(_, _, _)
SplitAcc(s, sep, cur) ==
    IF s = <<>> THEN <<cur>>
    ELSE IF Head(s) = sep THEN <<cur>> \o SplitAcc(Tail(s), sep, <<>>)
    ELSE SplitAcc(Tail(s), sep, Append(cur, Head(s)))

Split(s, sep) == SplitAcc(s, sep, <<>>)

-----------------------------------------------------------------------------
(* part_000 350-559: character sets.  A decoder is named by its encoding; *)
(* "" is the nil decoder (7-bit ASCII, the bytes pass through).             *)

\* DICOM character-set name, encoding name
htmlEncodingNames ==
    << << <<>>, "" >>, << <<73, 83, 79, 32, 50, 48, 50, 50, 32, 73, 82, 32, 54>>, "iso-8859-1" >>,
       << <<73, 83, 79, 95, 73, 82, 32, 49, 51>>, "shift_jis" >>,
       << <<73, 83, 79, 32, 50, 48, 50, 50, 32, 73, 82, 32, 49, 51>>, "shift_jis" >>,
       << <<73, 83, 79, 95, 73, 82, 32, 49, 48, 48>>, "iso-8859-1" >>,
       << <<73, 83, 79, 32, 50, 48, 50, 50, 32, 73, 82, 32, 49, 48, 48>>, "iso-8859-1" >>,
       << <<73, 83, 79, 95, 73, 82, 32, 49, 48, 49>>, "iso-8859-2" >>,
       << <<73, 83, 79, 32, 50, 48, 50, 50, 32, 73, 82, 32, 49, 48, 49>>, "iso-8859-2" >>,
       << <<73, 83, 79, 95, 73, 82, 32, 49, 48, 57>>, "iso-8859-3" >>,
       << <<73, 83, 79, 32, 50, 48, 50, 50, 32, 73, 82, 32, 49, 48, 57>>, "iso-8859-3" >>,
       << <<73, 83, 79, 95, 73, 82, 32, 49, 49, 48>>, "iso-8859-4" >>,
       << <<73, 83, 79, 32, 50, 48, 50, 50, 32, 73, 82, 32, 49, 49, 48>>, "iso-8859-4" >>,
       << <<73, 83, 79, 95, 73, 82, 32, 49, 50, 54>>, "iso-ir-126" >>,
       << <<73, 83, 79, 32, 50, 48, 50, 50, 32, 73, 82, 32, 49, 50, 54>>, "iso-ir-126" >>,
       << <<73, 83, 79, 95, 73, 82, 32, 49, 50, 55>>, "iso-ir-127" >>,
       << <<73, 83, 79, 32, 50, 48, 50, 50, 32, 73, 82, 32, 49, 50, 55>>, "iso-ir-127" >>,
       << <<73, 83, 79, 95, 73, 82, 32, 49, 51, 56>>, "iso-ir-138" >>,
       << <<73, 83, 79, 32, 50, 48, 50, 50, 32, 73, 82, 32, 49, 51, 56>>, "iso-ir-138" >>,
       << <<73, 83, 79, 95, 73, 82, 32, 49, 52, 52>>, "iso-8859-5" >>,
       << <<73, 83, 79, 32, 50, 48, 50, 50, 32, 73, 82, 32, 49, 52, 52>>, "iso-8859-5" >>,
       << <<73, 83, 79, 95, 73, 82, 32, 49, 52, 56>>, "iso-ir-148" >>,
       << <<73, 83, 79, 32, 50, 48, 50, 50, 32, 73, 82, 32, 49, 52, 56>>, "iso-ir-148" >>,
       << <<73, 83, 79, 32, 50, 48, 50, 50, 32, 73, 82, 32, 49, 52, 57>>, "euc-kr" >>,
       << <<73, 83, 79, 32, 50, 48, 50, 50, 32, 73, 82, 32, 49, 53, 57>>, "iso-2022-jp" >>,
       << <<73, 83, 79, 95, 73, 82, 32, 49, 54, 54>>, "iso-ir-166" >>,
       << <<73, 83, 79, 32, 50, 48, 50, 50, 32, 73, 82, 32, 49, 54, 54>>, "iso-ir-166" >>,
       << <<73, 83, 79, 32, 50, 48, 50, 50, 32, 73, 82, 32, 56, 55>>, "iso-2022-jp" >>,
       << <<73, 83, 79, 95, 73, 82, 32, 49, 57, 50>>, "utf-8" >>,
       << <<71, 66, 49, 56, 48, 51, 48>>, "gb18030" >>,
       << <<67, 80, 49, 50, 53, 48, 72, 65, 67, 75>>, "windows-1250" >>,
       << <<73, 83, 79, 95, 73, 82, 32, 49, 52, 54>>, "koi8-r" >>,
       << <<73, 83, 79, 32, 50, 48, 50, 50, 32, 73, 82, 32, 49, 52, 54>>, "koi8-r" >>,
       << <<87, 73, 78, 68, 79, 87, 83, 45, 49, 50, 53, 49>>, "windows-1251" >>,
       << <<67, 80, 49, 50, 53, 49>>, "windows-1251" >>,
       << <<75, 79, 73, 56, 45, 82>>, "koi8-r" >>, << <<75, 79, 73, 56, 45, 85>>, "koi8-u" >>,
       << <<67, 80, 56, 54, 54>>, "ibm866" >>, << <<73, 66, 77, 56, 54, 54>>, "ibm866" >> >>

alternatives ==
    << << <<67, 89, 82, 73, 76, 76, 73, 67>>, "iso-8859-5" >>,
       << <<73, 83, 79, 45, 56, 56, 53, 57, 45, 53>>, "iso-8859-5" >>,
       << <<73, 83, 79, 56, 56, 53, 57, 45, 53>>, "iso-8859-5" >>,
       << <<75, 79, 73, 56, 82>>, "koi8-r" >>, << <<75, 79, 73, 45, 56, 45, 82>>, "koi8-r" >>,
       << <<75, 79, 73, 56, 85>>, "koi8-u" >>, << <<75, 79, 73, 45, 56, 45, 85>>, "koi8-u" >>,
       << <<87, 73, 78, 45, 49, 50, 53, 49>>, "windows-1251" >>,
       << <<87, 73, 78, 49, 50, 53, 49>>, "windows-1251" >>,
       << <<87, 73, 78, 68, 79, 87, 83, 49, 50, 53, 49>>, "windows-1251" >>,
       << <<67, 80, 45, 49, 50, 53, 49>>, "windows-1251" >>,
       << <<67, 80, 45, 56, 54, 54>>, "ibm866" >>, << <<67, 80, 56, 54, 54>>, "ibm866" >>,
       << <<68, 79, 83, 45, 56, 54, 54>>, "ibm866" >>,
       << <<73, 66, 77, 45, 56, 54, 54>>, "ibm866" >> >>

Windows1251 ==
    <<1026, 1027, 8218, 1107, 8222, 8230, 8224, 8225, 8364, 8240, 1033, 8249, 1034, 1036,
      1035, 1039, 1106, 8216, 8217, 8220, 8221, 8226, 8211, 8212, 65533, 8482, 1113, 8250,
      1114, 1116, 1115, 1119, 160, 1038, 1118, 1032, 164, 1168, 166, 167, 1025, 169, 1028,
      171, 172, 173, 174, 1031, 176, 177, 1030, 1110, 1169, 181, 182, 183, 1105, 8470, 1108,
      187, 1112, 1029, 1109, 1111, 1040, 1041, 1042, 1043, 1044, 1045, 1046, 1047, 1048,
      1049, 1050, 1051, 1052, 1053, 1054, 1055, 1056, 1057, 1058, 1059, 1060, 1061, 1062,
      1063, 1064, 1065, 1066, 1067, 1068, 1069, 1070, 1071, 1072, 1073, 1074, 1075, 1076,
      1077, 1078, 1079, 1080, 1081, 1082, 1083, 1084, 1085, 1086, 1087, 1088, 1089, 1090,
      1091, 1092, 1093, 1094, 1095, 1096, 1097, 1098, 1099, 1100, 1101, 1102, 1103>>

KOI8R ==
    <<9472, 9474, 9484, 9488, 9492, 9496, 9500, 9508, 9516, 9524, 9532, 9600, 9604, 9608,
      9612, 9616, 9617, 9618, 9619, 8992, 9632, 8729, 8730, 8776, 8804, 8805, 160, 8993, 176,
      178, 183, 247, 9552, 9553, 9554, 1105, 9555, 9556, 9557, 9558, 9559, 9560, 9561, 9562,
      9563, 9564, 9565, 9566, 9567, 9568, 9569, 1025, 9570, 9571, 9572, 9573, 9574, 9575,
      9576, 9577, 9578, 9579, 9580, 169, 1102, 1072, 1073, 1094, 1076, 1077, 1092, 1075,
      1093, 1080, 1081, 1082, 1083, 1084, 1085, 1086, 1087, 1103, 1088, 1089, 1090, 1091,
      1078, 1074, 1100, 1099, 1079, 1096, 1101, 1097, 1095, 1098, 1070, 1040, 1041, 1062,
      1044, 1045, 1060, 1043, 1061, 1048, 1049, 1050, 1051, 1052, 1053, 1054, 1055, 1071,
      1056, 1057, 1058, 1059, 1046, 1042, 1068, 1067, 1047, 1064, 1069, 1065, 1063, 1066>>

KOI8U ==
    <<9472, 9474, 9484, 9488, 9492, 9496, 9500, 9508, 9516, 9524, 9532, 9600, 9604, 9608,
      9612, 9616, 9617, 9618, 9619, 8992, 9632, 8729, 8730, 8776, 8804, 8805, 160, 8993, 176,
      178, 183, 247, 9552, 9553, 9554, 1105, 1108, 9556, 1110, 1111, 9559, 9560, 9561, 9562,
      9563, 1169, 9565, 9566, 9567, 9568, 9569, 1025, 1028, 9571, 1030, 1031, 9574, 9575,
      9576, 9577, 9578, 1168, 9580, 169, 1102, 1072, 1073, 1094, 1076, 1077, 1092, 1075,
      1093, 1080, 1081, 1082, 1083, 1084, 1085, 1086, 1087, 1103, 1088, 1089, 1090, 1091,
      1078, 1074, 1100, 1099, 1079, 1096, 1101, 1097, 1095, 1098, 1070, 1040, 1041, 1062,
      1044, 1045, 1060, 1043, 1061, 1048, 1049, 1050, 1051, 1052, 1053, 1054, 1055, 1071,
      1056, 1057, 1058, 1059, 1046, 1042, 1068, 1067, 1047, 1064, 1069, 1065, 1063, 1066>>

ISO8859_5 ==
    <<128, 129, 130, 131, 132, 133, 134, 135, 136, 137, 138, 139, 140, 141, 142, 143, 144,
      145, 146, 147, 148, 149, 150, 151, 152, 153, 154, 155, 156, 157, 158, 159, 160, 1025,
      1026, 1027, 1028, 1029, 1030, 1031, 1032, 1033, 1034, 1035, 1036, 173, 1038, 1039,
      1040, 1041, 1042, 1043, 1044, 1045, 1046, 1047, 1048, 1049, 1050, 1051, 1052, 1053,
      1054, 1055, 1056, 1057, 1058, 1059, 1060, 1061, 1062, 1063, 1064, 1065, 1066, 1067,
      1068, 1069, 1070, 1071, 1072, 1073, 1074, 1075, 1076, 1077, 1078, 1079, 1080, 1081,
      1082, 1083, 1084, 1085, 1086, 1087, 1088, 1089, 1090, 1091, 1092, 1093, 1094, 1095,
      1096, 1097, 1098, 1099, 1100, 1101, 1102, 1103, 8470, 1105, 1106, 1107, 1108, 1109,
      1110, 1111, 1112, 1113, 1114, 1115, 1116, 167, 1118, 1119>>

CodePage866 ==
    <<1040, 1041, 1042, 1043, 1044, 1045, 1046, 1047, 1048, 1049, 1050, 1051, 1052, 1053,
      1054, 1055, 1056, 1057, 1058, 1059, 1060, 1061, 1062, 1063, 1064, 1065, 1066, 1067,
      1068, 1069, 1070, 1071, 1072, 1073, 1074, 1075, 1076, 1077, 1078, 1079, 1080, 1081,
      1082, 1083, 1084, 1085, 1086, 1087, 9617, 9618, 9619, 9474, 9508, 9569, 9570, 9558,
      9557, 9571, 9553, 9559, 9565, 9564, 9563, 9488, 9492, 9524, 9516, 9500, 9472, 9532,
      9566, 9567, 9562, 9556, 9577, 9574, 9568, 9552, 9580, 9575, 9576, 9572, 9573, 9561,
      9560, 9554, 9555, 9579, 9578, 9496, 9484, 9608, 9604, 9612, 9616, 9600, 1088, 1089,
      1090, 1091, 1092, 1093, 1094, 1095, 1096, 1097, 1098, 1099, 1100, 1101, 1102, 1103,
      1025, 1105, 1028, 1108, 1031, 1111, 1038, 1118, 176, 8729, 183, 8730, 8470, 164, 9632,
      160>>

Windows1250 ==
    <<8364, 65533, 8218, 65533, 8222, 8230, 8224, 8225, 65533, 8240, 352, 8249, 346, 356,
      381, 377, 65533, 8216, 8217, 8220, 8221, 8226, 8211, 8212, 65533, 8482, 353, 8250, 347,
      357, 382, 378, 160, 711, 728, 321, 164, 260, 166, 167, 168, 169, 350, 171, 172, 173,
      174, 379, 176, 177, 731, 322, 180, 181, 182, 183, 184, 261, 351, 187, 317, 733, 318,
      380, 340, 193, 194, 258, 196, 313, 262, 199, 268, 201, 280, 203, 282, 205, 206, 270,
      272, 323, 327, 211, 212, 336, 214, 215, 344, 366, 218, 368, 220, 221, 354, 223, 341,
      225, 226, 259, 228, 314, 263, 231, 269, 233, 281, 235, 283, 237, 238, 271, 273, 324,
      328, 243, 244, 337, 246, 247, 345, 367, 250, 369, 252, 253, 355, 729>>

Windows1252 ==
    <<8364, 129, 8218, 402, 8222, 8230, 8224, 8225, 710, 8240, 352, 8249, 338, 141, 381, 143,
      144, 8216, 8217, 8220, 8221, 8226, 8211, 8212, 732, 8482, 353, 8250, 339, 157, 382,
      376, 160, 161, 162, 163, 164, 165, 166, 167, 168, 169, 170, 171, 172, 173, 174, 175,
      176, 177, 178, 179, 180, 181, 182, 183, 184, 185, 186, 187, 188, 189, 190, 191, 192,
      193, 194, 195, 196, 197, 198, 199, 200, 201, 202, 203, 204, 205, 206, 207, 208, 209,
      210, 211, 212, 213, 214, 215, 216, 217, 218, 219, 220, 221, 222, 223, 224, 225, 226,
      227, 228, 229, 230, 231, 232, 233, 234, 235, 236, 237, 238, 239, 240, 241, 242, 243,
      244, 245, 246, 247, 248, 249, 250, 251, 252, 253, 254, 255>>

\* the table lookups: <<found, value>>
Lookup(table, key) ==
    IF \E i \in 1..Len(table) : table[i][1] = key
    THEN <<TRUE, table[CHOOSE i \in 1..Len(table) : table[i][1] = key][2]>>
    ELSE <<FALSE, "">>

IsSpace(c) == c \in {9, 10, 11, 12, 13, 32}

\* strings.Join(strings.Fields(s), " "); a leading blank run leaves one blank
RECURSIVE CollapseSpaces(_)
CollapseSpaces(s) ==
    IF s = <<>> THEN <<>>
    ELSE IF IsSpace(Head(s))
    THEN <<32>> \o CollapseSpaces(TrimLeft(s, {9, 10, 11, 12, 13, 32}))
    ELSE <<Head(s)>> \o CollapseSpaces(Tail(s))

\* strings.Join(strings.Fields(strings.TrimSpace(name)), " ")
NormalizeName(name) ==
    CollapseSpaces(TrimRight(TrimLeft(name, {9, 10, 11, 12, 13, 32}),
                             {9, 10, 11, 12, 13, 32}))

\* strings.ToUpper on ASCII
ToUpper(s) == [i \in 1..Len(s) |-> IF s[i] >= 97 /\ s[i] <= 122 THEN s[i] - 32 ELSE s[i]]

ISO_IR_100 == <<73, 83, 79, 95, 73, 82, 32, 49, 48, 48>>
CP1250HACK == <<67, 80, 49, 50, 53, 48, 72, 65, 67, 75>>

tryAlternativeEncodings(name) == Lookup(alternatives, ToUpper(name))

\* the decoder ParseSpecificCharacterSet picks for one name (part_000 461-515)
DecoderFor(name0, CP1250Fix) ==
    LET name == IF CP1250Fix /\ name0 = ISO_IR_100 THEN CP1250HACK ELSE name0
        normalizedName == NormalizeName(name)
        hit == Lookup(htmlEncodingNames, normalizedName)
        alt == tryAlternativeEncodings(normalizedName)
    IN  IF ~hit[1] THEN (IF alt[1] THEN alt[2] ELSE "utf-8") ELSE hit[2]

\* ParseSpecificCharacterSet: the {Alphabetic, Ideographic, Phonetic} triple
ParseSpecificCharacterSet(encodingNames, CP1250Fix) ==
    LET decoders == [i \in 1..Len(encodingNames) |-> DecoderFor(encodingNames[i], CP1250Fix)]
    IN  IF Len(decoders) = 0 THEN <<"", "", "">>
        ELSE IF Len(decoders) = 1 THEN <<decoders[1], decoders[1], decoders[1]>>
        ELSE IF Len(decoders) = 2 THEN <<decoders[1], decoders[2], decoders[2]>>
        ELSE <<decoders[1], decoders[2], decoders[3]>>

\* the charmap of a single-byte encoding, <<>> when the model has none
Charmap(name) ==
    CASE name = "windows-1251" -> Windows1251
      [] name = "koi8-r" -> KOI8R
      [] name = "koi8-u" -> KOI8U
      [] name = "iso-8859-5" -> ISO8859_5
      [] name \in {"ibm866", "cp866"} -> CodePage866
      [] name = "windows-1250" -> Windows1250
      [] name = "iso-8859-1" -> Windows1252
      [] OTHER -> <<>>

\* charmap decoding, byte by byte
RECURSIVE CharmapString(_, _)
CharmapString(table, s) ==
    IF s = <<>> THEN <<>>
    ELSE (IF Head(s) < 128 THEN <<Head(s)>> ELSE EncodeRune(table[Head(s) - 127]))
         \o CharmapString(table, Tail(s))

\* the UTF-8 decoder: an invalid byte becomes U+FFFD
RECURSIVE UTF8String(_)
UTF8String(s) ==
    IF s = <<>> THEN <<>>
    ELSE LET d == DecodeRune(s)
         IN  EncodeRune(d.r) \o UTF8String(SubSeq(s, d.n + 1, Len(s)))

\* encoding.Decoder.String; the nil decoder leaves the bytes as they are
DecodeString(name, s) ==
    IF name = "" THEN s
    ELSE IF name = "utf-8" THEN UTF8String(s)
    ELSE IF Charmap(name) # <<>> THEN CharmapString(Charmap(name), s)
    ELSE s

-----------------------------------------------------------------------------
(* element.go: reading one element *)

NoElem == Elem(<<0, 0>>, "", FALSE, <<>>)

\* tag order: lexicographic by (group, element)
TagGeq(t, u) == t[1] > u[1] \/ (t[1] = u[1] /\ t[2] >= u[2])

\* PN: the components between '=' use the alphabetic, ideographic and phonetic
\* decoders; every other text VR uses the ideographic one
RECURSIVE DecodeComponents(_, _, _)
DecodeComponents(cs, parts, i) ==
    IF i > Len(parts) THEN <<>>
    ELSE (IF i > 1 THEN <<61>> ELSE <<>>)
         \o DecodeString(cs[IF i > 3 THEN 3 ELSE i], parts[i])
         \o DecodeComponents(cs, parts, i + 1)

DecodeText(cs, vr, b) ==
    IF vr = "PN" THEN DecodeComponents(cs, Split(b, 61), 1) ELSE DecodeString(cs[2], b)

\* the fixed-width slots of a numeric payload
RECURSIVE ReadNumbers(_, _, _)
ReadNumbers(bo, vr, b) ==
    IF b = <<>> THEN <<>>
    ELSE IF vr = "US" THEN <<U16(U16Of(bo, b))>> \o ReadNumbers(bo, vr, SubSeq(b, 3, Len(b)))
    ELSE IF vr = "SS"
    THEN <<I16(IF U16Of(bo, b) >= 32768 THEN U16Of(bo, b) - 65536 ELSE U16Of(bo, b))>>
         \o ReadNumbers(bo, vr, SubSeq(b, 3, Len(b)))
    ELSE IF vr = "UL" THEN <<U32(U32Of(bo, b))>> \o ReadNumbers(bo, vr, SubSeq(b, 5, Len(b)))
    ELSE IF vr = "SL" THEN <<I32(U32Of(bo, b))>> \o ReadNumbers(bo, vr, SubSeq(b, 5, Len(b)))
    ELSE IF vr \in {"FL", "OF"}
    THEN <<F32(U32Of(bo, b))>> \o ReadNumbers(bo, vr, SubSeq(b, 5, Len(b)))
    ELSE <<IF bo = "LE" THEN F64(U32Of(bo, b), U32Of(bo, SubSeq(b, 5, 8)))
           ELSE F64(U32Of(bo, SubSeq(b, 5, 8)), U32Of(bo, b))>>
         \o ReadNumbers(bo, vr, SubSeq(b, 9, Len(b)))

SlotWidth(vr) ==
    IF vr \in {"US", "SS"} THEN 2 ELSE IF vr \in {"FD", "OD"} THEN 8 ELSE 4

\* OW: each 16-bit word from the stream's byte order to the native one
RECURSIVE ReadWords(_, _)
ReadWords(bo, b) ==
    IF Len(b) < 2 THEN <<>>
    ELSE U16Bytes("LE", U16Of(bo, b)) \o ReadWords(bo, SubSeq(b, 3, Len(b)))

RECURSIVE ReadTags(_, _)
ReadTags(bo, b) ==
    IF Len(b) < 4 THEN <<>>
    ELSE <<TagV(<<U16Of(bo, b), U16Of(bo, SubSeq(b, 3, 4))>>)>>
         \o ReadTags(bo, SubSeq(b, 5, Len(b)))

\* the value list of a leaf element from its payload; <<ok, values>>
LeafValues(d, vr, b) ==
    LET Strs(parts) == [i \in 1..Len(parts) |-> Str(parts[i])]
    IN  IF vr \in {"US", "SS", "UL", "SL", "FL", "OF", "FD", "OD"}
        THEN IF Len(b) % SlotWidth(vr) # 0 THEN <<FALSE, <<>>>>
             ELSE <<TRUE, ReadNumbers(d.bo, vr, b)>>
        ELSE IF vr \in {"OB", "UN"} THEN <<TRUE, <<Bytes(b)>>>>
        ELSE IF vr = "OW"
        THEN IF Len(b) % 2 # 0 THEN <<FALSE, <<>>>>
             ELSE <<TRUE, <<Bytes(ReadWords(d.bo, b))>>>>
        ELSE IF vr = "AT"
        THEN IF Len(b) % 4 # 0 THEN <<FALSE, <<>>>> ELSE <<TRUE, ReadTags(d.bo, b)>>
        ELSE IF vr = "UI" THEN <<TRUE, <<Str(TrimRight(b, {0}))>>>>
        ELSE <<TRUE, Strs(Split(TrimRight(DecodeText(d.cs, vr, b), {32}), 92))>>

\* the tag of the next element: [d, tag]
ReadTag(d) ==
    LET Of(g, e) == [d |-> e.d, tag |-> <<g.v, e.v>>]
        Element(g) == Of(g, ReadUInt16(g.d))
    IN  Element(ReadUInt16(d))

\* the element header after the tag: [d, vr, vl]
ReadHeader(d, tag) ==
    LET Of(l, vr) == [d |-> l.d, vr |-> vr, vl |-> l.v]
        Explicit(v, vr) ==
            IF vr \in LongVRs THEN Of(ReadUInt32(ReadBytes(v.d, 2).d), vr)
            ELSE Of(ReadUInt16(v.d), vr)
        AfterVR(v) == Explicit(v, VRName(v.b))
    IN  IF d.implicit # "ExplicitVR" \/ tag[1] = itemSeqGroup
        THEN Of(ReadUInt32(d), IF FindVR(tag) = "" THEN "UN" ELSE FindVR(tag))
        ELSE AfterVR(ReadBytes(d, 2))

\* the Items of encapsulated pixel data up to the SequenceDelimitationItem:
\* [d, items], each item its raw payload
RECURSIVE ReadRawItems(_, _)
ReadRawItems(d, acc) ==
    LET AfterPayload(b) ==
            IF b.d.err # "" THEN [d |-> b.d, items |-> acc]
            ELSE ReadRawItems(b.d, Append(acc, b.b))
        AfterLength(t, l) ==
            IF l.d.err # "" THEN [d |-> l.d, items |-> acc]
            ELSE IF t.tag = SequenceDelimitationItem THEN [d |-> l.d, items |-> acc]
            ELSE IF t.tag # Item
            THEN [d |-> DSetError(l.d, "pixel data: expected an Item"), items |-> acc]
            ELSE AfterPayload(ReadBytes(l.d, l.v))
        AfterTag(t) == AfterLength(t, ReadUInt32(t.d))
    IN  AfterTag(ReadTag(d))

RECURSIVE ReadElement(_, _, _)

\* the children of an undefined-length SQ (items = TRUE) or Item, up to the
\* delimitation item, which is consumed and not kept: [d, values]
RECURSIVE ReadUntil(_, _, _, _)
ReadUntil(d, opts, items, acc) ==
    LET Of(r) ==
            IF r.d.err # "" THEN [d |-> r.d, values |-> acc]
            ELSE IF r.elem.tag
                    = (IF items THEN SequenceDelimitationItem ELSE ItemDelimitationItem)
            THEN [d |-> r.d, values |-> acc]
            ELSE IF items /\ r.elem.tag # Item
            THEN [d |-> DSetError(r.d, "SQ: expected an Item"), values |-> acc]
            ELSE ReadUntil(r.d, opts, items,
                           IF r.kind = "elem" THEN Append(acc, Sub(r.elem)) ELSE acc)
    IN  Of(ReadElement(d, opts, FALSE))

\* the children of a defined-length SQ or Item: exactly the bytes up to d.limit
RECURSIVE ReadWithin(_, _, _, _)
ReadWithin(d, opts, items, acc) ==
    LET Of(r) ==
            IF r.d.err # "" THEN [d |-> r.d, values |-> acc]
            ELSE IF items /\ r.elem.tag # Item
            THEN [d |-> DSetError(r.d, "SQ: expected an Item"), values |-> acc]
            ELSE ReadWithin(r.d, opts, items,
                            IF r.kind = "elem" THEN Append(acc, Sub(r.elem)) ELSE acc)
    IN  IF EOF(d) THEN [d |-> d, values |-> acc]
        ELSE Of(ReadElement(d, opts, FALSE))

\* the value of PixelData: [d, kind, elem]
ReadPixelData(d, tag, vr, vl) ==
    LET Encapsulated(r) ==
            IF r.d.err # "" THEN [d |-> r.d, kind |-> "nil", elem |-> NoElem]
            ELSE IF r.items = <<>> \/ Len(r.items[1]) % 4 # 0
            THEN [d |-> DSetError(r.d, "pixel data: basic offset table"),
                  kind |-> "nil", elem |-> NoElem]
            ELSE [d |-> r.d, kind |-> "elem",
                  elem |-> Elem(tag, vr, TRUE,
                                <<Pix([i \in 1..(Len(r.items[1]) \div 4) |->
                                          U32Of(d.bo, SubSeq(r.items[1], 4 * i - 3, 4 * i))],
                                      Tail(r.items))>>)]
        Native(b) ==
            IF b.d.err # "" THEN [d |-> b.d, kind |-> "nil", elem |-> NoElem]
            ELSE [d |-> b.d, kind |-> "elem",
                  elem |-> Elem(tag, vr, FALSE, <<Pix(<<>>, <<b.b>>)>>)]
    IN  IF vl = undefinedLength THEN Encapsulated(ReadRawItems(d, <<>>))
        ELSE Native(ReadBytes(d, vl))

\* ReadElement: [d, kind, elem]; kind is "elem", "nil" (a parse error, or an
\* element dropped) or "end" (endOfDataElement).  top: a body element
ReadElement(d, opts, top) ==
    LET None(d1) == [d |-> d1, kind |-> "nil", elem |-> NoElem]
        Leaf(tag, h, b, v) ==
            IF b.d.err # "" THEN None(b.d)
            ELSE IF ~v[1] THEN None(DSetError(b.d, "bad value length"))
            ELSE [d |-> b.d, kind |-> "elem", elem |-> Elem(tag, h.vr, FALSE, v[2])]
        Payload(tag, h, b) == Leaf(tag, h, b, LeafValues(h.d, h.vr, b.b))
        Delimited(tag, h, r) ==
            IF r.d.err # "" \/ h.vr = "UN" THEN None(r.d)
            ELSE [d |-> r.d, kind |-> "elem", elem |-> Elem(tag, h.vr, TRUE, r.values)]
        Sized(tag, h, r) ==
            IF r.d.err # "" THEN None([r.d EXCEPT !.limit = h.d.limit])
            ELSE [d |-> [r.d EXCEPT !.limit = h.d.limit], kind |-> "elem",
                  elem |-> Elem(tag, h.vr, FALSE, r.values)]
        Value(tag, h) ==
            IF h.d.err # "" THEN None(h.d)
            ELSE IF tag = PixelData THEN ReadPixelData(h.d, tag, h.vr, h.vl)
            ELSE IF h.vr \in {"SQ", "NA", "UN"} /\ h.vl = undefinedLength
            THEN Delimited(tag, h, ReadUntil(h.d, opts, h.vr # "NA", <<>>))
            ELSE IF h.vl = undefinedLength THEN None(DSetError(h.d, "undefined length"))
            ELSE IF h.vr \in {"SQ", "NA"}
            THEN IF h.vl < 0 \/ h.d.pos + h.vl > h.d.limit
                 THEN None(DSetError(h.d, "truncated"))
                 ELSE Sized(tag, h, ReadWithin([h.d EXCEPT !.limit = h.d.pos + h.vl], opts,
                                               h.vr = "SQ", <<>>))
            ELSE Payload(tag, h, ReadBytes(h.d, h.vl))
        AfterTag(t) ==
            IF t.d.err # "" THEN None(t.d)
            ELSE IF t.tag = PixelData /\ opts.DropPixelData
            THEN [d |-> t.d, kind |-> "end", elem |-> NoElem]
            ELSE IF top /\ opts.StopAtTag # <<>> /\ TagGeq(t.tag, opts.StopAtTag)
            THEN [d |-> t.d, kind |-> "end", elem |-> NoElem]
            ELSE Value(t.tag, ReadHeader(t.d, t.tag))
    IN  AfterTag(ReadTag(d))

-----------------------------------------------------------------------------
(* part_000 177-272: reading a data set *)

\* ReadOptions; ReturnTagsSet = FALSE is a nil ReturnTags, StopAtTag = <<>> a nil one
ReadOptions(drop, rtSet, rt, stop, fix, dflt) ==
    [DropPixelData |-> drop, ReturnTagsSet |-> rtSet, ReturnTags |-> rt, StopAtTag |-> stop,
     CP1250Fix |-> fix, DefaultCyrillicEncoding |-> dflt]

DefaultReadOptions == ReadOptions(FALSE, FALSE, <<>>, <<>>, FALSE, "")

tagInList(tag, list) == \E i \in 1..Len(list) : list[i] = tag

\* ParseFileHeader: [d, metaElems]
ParseFileHeader(d) ==
    LET Meta(gl, body) ==
            [d |-> [body.d EXCEPT !.limit = gl.d.limit],
             metaElems |-> <<gl.elem>>
                           \o [i \in 1..Len(body.values) |-> body.values[i].el[1]]]
        Group(gl, n) ==
            IF n < 0 \/ gl.d.pos + n > gl.d.limit
            THEN [d |-> DSetError(gl.d, "truncated"), metaElems |-> <<>>]
            ELSE Meta(gl, ReadWithin([gl.d EXCEPT !.limit = gl.d.pos + n],
                                     DefaultReadOptions, FALSE, <<>>))
        AfterLength(gl) ==
            IF gl.d.err # "" THEN [d |-> gl.d, metaElems |-> <<>>]
            ELSE IF gl.kind # "elem" \/ gl.elem.tag # FileMetaInformationGroupLength
                    \/ Len(gl.elem.value) # 1 \/ gl.elem.value[1].k # "u32"
            THEN [d |-> DSetError(gl.d, "FileMetaInformationGroupLength not found"),
                  metaElems |-> <<>>]
            ELSE Group(gl, gl.elem.value[1].n)
        AfterMagic(magic) ==
            AfterLength(ReadElement(IF magic.d.err = "" /\ magic.b # DICM
                                    THEN [magic.d EXCEPT !.pos = 0] ELSE magic.d,
                                    DefaultReadOptions, FALSE))
    IN  AfterMagic(ReadBytes(ReadBytes(d, 128).d, 4))

\* the runes of a string
RECURSIVE Runes(_)
Runes(s) ==
    LET Of(r) == <<r.r>> \o Runes(SubSeq(s, r.n + 1, Len(s)))
    IN  IF s = <<>> THEN <<>> ELSE Of(DecodeRune(s))

\* utf8.ValidString
RECURSIVE ValidString(_)
ValidString(s) ==
    LET Of(d) == ~(d.r = 65533 /\ d.n = 1) /\ ValidString(SubSeq(s, d.n + 1, Len(s)))
    IN  s = <<>> \/ Of(DecodeRune(s))

containsGarbage(s) ==
    LET garbageCount(rs) ==
            Cardinality({i \in 1..Len(rs) : rs[i] = 65533})
            + Cardinality({i \in 1..Len(rs) : rs[i] >= 128 /\ rs[i] <= 255})
        Of(rs) == Len(rs) > 0 /\ 5 * garbageCount(rs) > Len(rs)
    IN  Of(Runes(s))

containsCyrillic(text) ==
    LET Of(rs) ==
            \E i \in 1..Len(rs) :
                \/ (rs[i] >= 1024 /\ rs[i] <= 1279) \/ (rs[i] >= 1280 /\ rs[i] <= 1327)
                \/ (rs[i] >= 11744 /\ rs[i] <= 11775) \/ (rs[i] >= 42560 /\ rs[i] <= 42655)
    IN  Of(Runes(text))

\* the candidate encodings of detectCyrillicEncoding, in order
CyrillicEncodings == <<"windows-1251", "koi8-r", "iso-8859-5", "cp866">>

\* the first of the candidates cs whose decoding holds Cyrillic, else the text
RECURSIVE TryEncodings(_, _, _)
TryEncodings(text, cands, skip) ==
    LET Of(decoded) ==
            IF Head(cands) # skip /\ containsCyrillic(decoded) THEN decoded
            ELSE TryEncodings(text, Tail(cands), skip)
    IN  IF cands = <<>> THEN text
        ELSE Of(CharmapString(Charmap(Head(cands)), text))

detectCyrillicEncoding(text, defaultEncoding) ==
    LET Of(decoded) ==
            IF containsCyrillic(decoded) THEN decoded
            ELSE TryEncodings(text, CyrillicEncodings, defaultEncoding)
    IN  IF ValidString(text) THEN text
        ELSE IF defaultEncoding # ""
                /\ (\E i \in 1..Len(CyrillicEncodings) : CyrillicEncodings[i] = defaultEncoding)
        THEN Of(CharmapString(Charmap(defaultEncoding), text))
        ELSE TryEncodings(text, CyrillicEncodings, defaultEncoding)

\* strings.TrimSpace on ASCII blanks
TrimSpace(s) == TrimRight(TrimLeft(s, {9, 10, 11, 12, 13, 32}), {9, 10, 11, 12, 13, 32})

processMultiValueDSElement(elem) ==
    LET Of(parts) == [elem EXCEPT !.value = [i \in 1..Len(parts) |-> Str(TrimSpace(parts[i]))]]
    IN  IF Len(elem.value) = 1 /\ elem.value[1].k = "str"
           /\ (\E i \in 1..Len(elem.value[1].s) : elem.value[1].s[i] = 92)
        THEN Of(Split(elem.value[1].s, 92))
        ELSE elem

\* Element.GetCleanStrings: <<ok, strings>>
GetCleanStrings(elem) ==
    IF \A i \in 1..Len(elem.value) : elem.value[i].k = "str"
    THEN <<TRUE, [i \in 1..Len(elem.value) |-> FilterNonPrintable(elem.value[i].s)]>>
    ELSE <<FALSE, <<>>>>

\* part_000 211-233: a SpecificCharacterSet element installs the coding system;
\* st is [d, elems, charsetSet, panic, auto, steps]
InstallCharset(st, elem, options) ==
    LET Of(names) ==
            IF ~names[1] THEN [st EXCEPT !.d = DSetError(@, "SpecificCharacterSet: not strings")]
            ELSE [st EXCEPT !.d.cs = ParseSpecificCharacterSet(names[2], options.CP1250Fix),
                            !.charsetSet = TRUE]
    IN  IF elem.tag # SpecificCharacterSet THEN st ELSE Of(GetCleanStrings(elem))

\* AutoDetect that does not look at charsetSet
AutoDetectAlways(charsetSet, elem, options) ==
    LET Of(decoded) ==
            IF decoded # elem.value[1].s THEN [elem EXCEPT !.value = <<Str(decoded)>>]
            ELSE elem
    IN  IF Len(elem.value) > 0 /\ elem.value[1].k = "str"
           /\ elem.value[1].s # <<>> /\ containsGarbage(elem.value[1].s)
        THEN Of(detectCyrillicEncoding(elem.value[1].s, options.DefaultCyrillicEncoding))
        ELSE elem

\* part_000 235-248: Cyrillic auto-detection
AutoDetect(charsetSet, elem, options) ==
    LET Of(decoded) ==
            IF decoded # elem.value[1].s THEN [elem EXCEPT !.value = <<Str(decoded)>>]
            ELSE elem
    IN  IF ~charsetSet /\ Len(elem.value) > 0 /\ elem.value[1].k = "str"
           /\ elem.value[1].s # <<>> /\ containsGarbage(elem.value[1].s)
        THEN Of(detectCyrillicEncoding(elem.value[1].s, options.DefaultCyrillicEncoding))
        ELSE elem

\* part_000 255-269: the whitelist and the non-printable filter
CleanValues(elem) ==
    [elem EXCEPT !.value =
        [i \in 1..Len(elem.value) |->
            IF elem.value[i].k = "str"
            THEN [elem.value[i] EXCEPT !.s = FilterNonPrintable(@)] ELSE elem.value[i]]]

Returned(elem, options) ==
    ~options.ReturnTagsSet \/ tagInList(elem.tag, options.ReturnTags)

\* ProcessElement that drops an element off the whitelist before its side effects
ProcessElementFilterFirst(st, elem0, options) ==
    LET Keep(st1, elem2) == [st1 EXCEPT !.elems = Append(@, CleanValues(elem2))]
        Split1(st1, elem1) ==
            Keep([st1 EXCEPT !.auto = elem1],
                 IF elem1.vr = "DS" THEN processMultiValueDSElement(elem1) ELSE elem1)
        Detect(st1) == Split1(st1, AutoDetect(st1.charsetSet, elem0, options))
    IN  IF Returned(elem0, options) THEN Detect(InstallCharset(st, elem0, options)) ELSE st

\* one element read and post-processed (part_000 211-269)
ProcessElement(st, elem0, options) ==
    LET Keep(st1, elem2) ==
            IF Returned(elem2, options)
            THEN [st1 EXCEPT !.elems = Append(@, CleanValues(elem2))]
            ELSE st1
        Split1(st1, elem1) ==
            Keep([st1 EXCEPT !.auto = elem1],
                 IF elem1.vr = "DS" THEN processMultiValueDSElement(elem1) ELSE elem1)
        Detect(st1) == Split1(st1, AutoDetect(st1.charsetSet, elem0, options))
    IN  Detect(InstallCharset(st, elem0, options))

\* the record of one iteration of the element loop: the position before and
\* after ReadElement, what it returned (kind, raw), the element after the
\* auto-detection, whether an element was appended, and the state the
\* iteration leaves (charsetSet, the decoder's error)
Step(st, r, kind, next) ==
    [next EXCEPT !.steps =
        Append(@, [from |-> st.d.pos, to |-> r.d.pos, kind |-> kind, raw |-> r.elem,
                   auto |-> IF kind = "elem" THEN next.auto ELSE NoElem,
                   kept |-> Len(next.elems) > Len(st.elems),
                   charsetSet |-> next.charsetSet, err |-> next.d.err])]

\* the element loop that does not break at endOfDataElement
RECURSIVE ReadLoopNoBreak(_, _)
ReadLoopNoBreak(st, options) ==
    LET Of(r) ==
            IF r.d.pos <= st.d.pos
            THEN Step(st, r, "panic", [st EXCEPT !.d = r.d, !.panic = TRUE])
            ELSE IF r.kind \in {"end", "nil"}
            THEN ReadLoopNoBreak(Step(st, r, r.kind, [st EXCEPT !.d = r.d]), options)
            ELSE ReadLoopNoBreak(
                     Step(st, r, "elem",
                          ProcessElement([st EXCEPT !.d = r.d], r.elem, options)),
                     options)
    IN  IF EOF(st.d) THEN st ELSE Of(ReadElement(st.d, options, TRUE))

\* the element loop without the test that the read consumed data
RECURSIVE ReadLoopNoProgressCheck(_, _)
ReadLoopNoProgressCheck(st, options) ==
    LET Of(r) ==
            IF r.kind = "end" THEN Step(st, r, "end", [st EXCEPT !.d = r.d])
            ELSE IF r.kind = "nil"
            THEN ReadLoopNoProgressCheck(Step(st, r, "nil", [st EXCEPT !.d = r.d]), options)
            ELSE ReadLoopNoProgressCheck(
                     Step(st, r, "elem",
                          ProcessElement([st EXCEPT !.d = r.d], r.elem, options)),
                     options)
    IN  IF EOF(st.d) THEN st ELSE Of(ReadElement(st.d, options, TRUE))

\* the element loop (part_000 197-270)
RECURSIVE ReadLoop(_, _)
ReadLoop(st, options) ==
    LET Of(r) ==
            IF r.d.pos <= st.d.pos
            THEN Step(st, r, "panic", [st EXCEPT !.d = r.d, !.panic = TRUE])
            ELSE IF r.kind = "end" THEN Step(st, r, "end", [st EXCEPT !.d = r.d])
            ELSE IF r.kind = "nil"
            THEN ReadLoop(Step(st, r, "nil", [st EXCEPT !.d = r.d]), options)
            ELSE ReadLoop(
                     Step(st, r, "elem",
                          ProcessElement([st EXCEPT !.d = r.d], r.elem, options)),
                     options)
    IN  IF EOF(st.d) THEN st ELSE Of(ReadElement(st.d, options, TRUE))

\* ReadDataSet that returns no DataSet when the element loop ended with an error
ReadDataSetAllOrNothing(in, options) ==
    LET Failed(err) ==
            [nil |-> TRUE, elems |-> <<>>, err |-> err, panic |-> FALSE, steps |-> <<>>]
        Result(st) ==
            IF st.d.err # "" /\ ~st.panic THEN [Failed(st.d.err) EXCEPT !.steps = st.steps]
            ELSE [nil |-> FALSE, elems |-> st.elems, err |-> st.d.err, panic |-> st.panic,
                  steps |-> st.steps]
        Body(h, ts) ==
            IF ts.err # "" THEN Failed(ts.err)
            ELSE Result(ReadLoop([d |-> [h.d EXCEPT !.bo = ts.bo, !.implicit = ts.implicit],
                                  elems |-> h.metaElems, charsetSet |-> FALSE,
                                  panic |-> FALSE, auto |-> NoElem, steps |-> <<>>],
                                 options))
        AfterHeader(h) ==
            IF h.d.err # "" THEN Failed(h.d.err)
            ELSE Body(h, getTransferSyntax(h.metaElems))
    IN  AfterHeader(ParseFileHeader(NewDecoder(in, "LE", "ExplicitVR")))

\* ReadDataSet: [nil, elems, err, panic, steps]; nil: no DataSet is returned;
\* steps: the record of the iterations of the element loop
ReadDataSet(in, options) ==
    LET Result(st) ==
            [nil |-> FALSE, elems |-> st.elems, err |-> st.d.err, panic |-> st.panic,
             steps |-> st.steps]
        Failed(err) ==
            [nil |-> TRUE, elems |-> <<>>, err |-> err, panic |-> FALSE, steps |-> <<>>]
        Body(h, ts) ==
            IF ts.err # "" THEN Failed(ts.err)
            ELSE Result(ReadLoop([d |-> [h.d EXCEPT !.bo = ts.bo, !.implicit = ts.implicit],
                                  elems |-> h.metaElems, charsetSet |-> FALSE,
                                  panic |-> FALSE, auto |-> NoElem, steps |-> <<>>],
                                 options))
        AfterHeader(h) ==
            IF h.d.err # "" THEN Failed(h.d.err)
            ELSE Body(h, getTransferSyntax(h.metaElems))
    IN  AfterHeader(ParseFileHeader(NewDecoder(in, "LE", "ExplicitVR")))

-----------------------------------------------------------------------------
(* The inputs: what a client hands to the writer, and the files it reads *)

SeqsUpTo(S, n) == UNION {[1..m -> S] : m \in 0..n}

TransferSyntaxes == {<<"LE", "ImplicitVR">>, <<"LE", "ExplicitVR">>, <<"BE", "ExplicitVR">>}

WriteOptSets == {[SkipVRVerification |-> FALSE], [SkipVRVerification |-> TRUE]}

\* values of leaf elements: texts of odd and even length, a number, byte strings
LeafValuePool == {Str(<<65>>), Str(<<65, 66>>), U16(7), Bytes(<<1>>), Bytes(<<1, 2>>)}

LeafElems ==
    {Elem(t, vr, u, vs) : t \in {PatientID, Rows, PrivateCreator},
                          vr \in {"", "LO", "SH", "US", "OB", "OW", "UI", "UN"},
                          u \in BOOLEAN, vs \in SeqsUpTo(LeafValuePool, MaxVals)}

\* children of Items: an odd-length text, a private element, a value of the
\* wrong type, a VR of the wrong kind
KidPool ==
    {Elem(PatientID, "LO", FALSE, <<Str(<<65>>)>>),
     Elem(PrivateCreator, "LO", FALSE, <<Str(<<88, 89>>)>>),
     Elem(Rows, "US", FALSE, <<Str(<<65>>)>>),
     Elem(PatientID, "US", FALSE, <<U16(7)>>)}

InnerItems == {Elem(Item, "NA", u, <<Sub(c)>>) : u \in BOOLEAN, c \in KidPool}

InnerSQs ==
    {Elem(ReferencedStudySequence, "SQ", u, vs) :
        u \in BOOLEAN, vs \in SeqsUpTo({Sub(i) : i \in InnerItems}, 1)}

OuterItems ==
    {Elem(Item, "NA", u, vs) :
        u \in BOOLEAN,
        vs \in SeqsUpTo({Sub(c) : c \in KidPool} \cup {Str(<<65>>)}, MaxKids)
               \cup {<<Sub(q)>> : q \in InnerSQs}}

SQElems ==
    {Elem(ReferencedStudySequence, "SQ", u, vs) :
        u \in BOOLEAN,
        vs \in {<<>>, <<Str(<<65>>)>>, <<Sub(Elem(PatientID, "LO", FALSE, <<>>))>>}
               \cup {<<Sub(i)>> : i \in OuterItems}
               \cup {<<Sub(i), Sub(j)>> : i \in InnerItems, j \in InnerItems}}

FramePool == {<<>>, <<1>>, <<1, 2>>}

PixelElems ==
    {Elem(PixelData, vr, u, vs) :
        vr \in {"", "OB", "OW", "US"}, u \in BOOLEAN,
        vs \in {<<>>, <<Str(<<65>>)>>}
               \cup {<<Pix(o, fs)>> : o \in {<<>>, <<0>>}, fs \in SeqsUpTo(FramePool, MaxVals)}
               \cup {<<Pix(<<>>, <<<<1, 2>>>>), Pix(<<>>, <<<<1, 2>>>>)>>}}

\* an element whose value takes 65536 bytes, one more than a 2-byte length
\* field can count
BigElems == {Elem(PatientID, "LO", FALSE, <<Str([i \in 1..65536 |-> 65])>>)}

WriteElems == LeafElems \cup SQElems \cup PixelElems \cup BigElems

\* meta elements
UID12 == <<49, 46, 50>>
UID123 == <<49, 46, 50, 51>>
TransferSyntaxUIDs == {ImplicitVRLittleEndian, ExplicitVRLittleEndian, ExplicitVRBigEndian}

RequiredMeta(uid) ==
    <<Elem(MediaStorageSOPClassUID, "UI", FALSE, <<Str(UID12)>>),
      Elem(MediaStorageSOPInstanceUID, "UI", FALSE, <<Str(UID123)>>),
      Elem(TransferSyntaxUID, "UI", FALSE, <<Str(uid)>>)>>

\* a list without its i-th element (i = 0: the whole list)
Without(l, i) == SelectSeq([j \in 1..Len(l) |-> <<j, l[j]>>], LAMBDA x : x[1] # i)

Drop(l, i) == [j \in 1..Len(Without(l, i)) |-> Without(l, i)[j][2]]

OptionalMetaPool ==
    {Elem(SourceApplicationEntityTitle, "AE", FALSE, <<Str(<<65>>)>>),
     Elem(SourceApplicationEntityTitle, "AE", FALSE, <<Str(<<66, 67>>)>>),
     Elem(FileMetaInformationVersion, "OB", FALSE, <<Bytes(<<0, 1>>)>>),
     Elem(ImplementationVersionName, "SH", FALSE, <<Str(<<71, 79>>)>>),
     Elem(TransferSyntaxUID, "UI", FALSE, <<Str(ExplicitVRBigEndian)>>),
     Elem(PatientID, "LO", FALSE, <<Str(<<65>>)>>)}

MetaLists ==
    {IF first THEN opt \o Drop(RequiredMeta(uid), i) ELSE Drop(RequiredMeta(uid), i) \o opt :
        first \in BOOLEAN, uid \in TransferSyntaxUIDs, i \in 0..3,
        opt \in SeqsUpTo(OptionalMetaPool, MaxMeta)}

\* body elements of a client's data set
BodyPool ==
    {Elem(PatientID, "LO", FALSE, <<Str(<<65>>)>>),
     Elem(PrivateCreator, "LO", FALSE, <<Str(<<88, 89>>)>>),
     Elem(Rows, "US", FALSE, <<U16(7)>>),
     Elem(Rows, "US", FALSE, <<Str(<<65>>)>>),
     Elem(ReferencedStudySequence, "SQ", TRUE,
          <<Sub(Elem(Item, "NA", TRUE,
                     <<Sub(Elem(PrivateCreator, "LO", FALSE, <<Str(<<88, 89>>)>>))>>))>>),
     Elem(SourceApplicationEntityTitle, "AE", FALSE, <<Str(<<65>>)>>)}

ClientDataSets ==
    {Drop(RequiredMeta(uid), i) \o body :
        uid \in TransferSyntaxUIDs, i \in 0..3, body \in SeqsUpTo(BodyPool, MaxBody)}

-----------------------------------------------------------------------------
(* Input files, laid out byte by byte as DICOM Part 10 prescribes *)

\* an element header of the given length field
RawHeader(ts, tag, vr, vl) ==
    U16Bytes(ts[1], tag[1]) \o U16Bytes(ts[1], tag[2])
    \o (IF ts[2] = "ExplicitVR" /\ tag[1] # 65534
        THEN IF vr \in LongVRs THEN Cat3(VRBytes(vr), <<0, 0>>, U32Bytes(ts[1], vl))
             ELSE VRBytes(vr) \o U16Bytes(ts[1], vl)
        ELSE U32Bytes(ts[1], vl))

RawElem(ts, tag, vr, payload) == RawHeader(ts, tag, vr, Len(payload)) \o payload

RawUndefined(ts, tag, vr, content, delim) ==
    Cat3(RawHeader(ts, tag, vr, -1), content, RawHeader(ts, delim, "NA", 0))

\* the body elements an input file is made of
FilePool(ts) ==
    << RawElem(ts, PatientID, "LO", <<208, 229, 92, 65>>),
       RawElem(ts, SpecificCharacterSet, "CS", <<>>),
       RawElem(ts, PrivateCreator, "LO", <<88, 89>>),
       RawElem(ts, Rows, "US", U16Bytes(ts[1], 7)),
       RawUndefined(ts, ReferencedStudySequence, "SQ",
           RawUndefined(ts, Item, "NA", RawElem(ts, PatientID, "LO", <<65, 66>>),
                        ItemDelimitationItem),
           SequenceDelimitationItem),
       RawElem(ts, ReferencedStudySequence, "SQ",
           RawElem(ts, Item, "NA", RawElem(ts, PrivateCreator, "LO", <<88, 89>>))),
       RawUndefined(ts, PixelData, "OW",
           RawElem(ts, Item, "NA", U32Bytes(ts[1], 0)) \o RawElem(ts, Item, "NA", <<1, 2>>),
           SequenceDelimitationItem),
       RawElem(ts, PixelData, "OW", <<1, 2>>),
       RawElem(ts, SpecificCharacterSet, "CS", <<73, 83, 79, 95, 73, 82, 32, 49, 52, 52>>),
       RawElem(ts, PatientName, "PN", <<208, 229, 242, 240>>),
       RawElem(ts, PatientWeight, "DS", <<49, 92, 50, 32>>) >>

\* an element cut short by the end of the file
Truncated(ts) == RawHeader(ts, PatientID, "LO", 4) \o <<65, 66>>

\* a byte left over after the last element
Stray == <<8>>

TSUID(ts) ==
    IF ts[2] = "ImplicitVR" THEN ImplicitVRLittleEndian
    ELSE IF ts[1] = "LE" THEN ExplicitVRLittleEndian ELSE ExplicitVRBigEndian

ELE == <<"LE", "ExplicitVR">>

FileMeta(ts) ==
    Cat3(RawElem(ELE, MediaStorageSOPClassUID, "UI", UID12 \o <<0>>),
         RawElem(ELE, MediaStorageSOPInstanceUID, "UI", UID123),
         RawElem(ELE, TransferSyntaxUID, "UI", TSUID(ts) \o <<0>>))

FileBytes(ts, body, cut) ==
    Zeros(128) \o DICM
    \o RawElem(ELE, FileMetaInformationGroupLength, "UL", U32Bytes("LE", Len(FileMeta(ts))))
    \o FileMeta(ts)
    \o Flatten([i \in 1..Len(body) |-> FilePool(ts)[body[i]]])
    \o (IF cut = 1 THEN Truncated(ts) ELSE IF cut = 2 THEN Stray ELSE <<>>)

Files ==
    {FileBytes(ts, body, cut) :
        ts \in TransferSyntaxes, body \in SeqsUpTo(1..Len(FilePool(ELE)), MaxBody),
        cut \in {0}}
    \cup {FileBytes(ELE, body, cut) :
            body \in SeqsUpTo(1..Len(FilePool(ELE)), MaxBody - 1), cut \in {1, 2}}

ReadOptionSets ==
    {DefaultReadOptions,
     ReadOptions(FALSE, FALSE, <<>>, PatientID, FALSE, ""),
     ReadOptions(FALSE, FALSE, <<>>, <<16, 0>>, FALSE, ""),
     ReadOptions(TRUE, FALSE, <<>>, <<>>, FALSE, ""),
     ReadOptions(FALSE, TRUE, <<PatientID>>, <<>>, FALSE, ""),
     ReadOptions(FALSE, TRUE, <<PatientName>>, PatientWeight, TRUE, "koi8-r")}

-----------------------------------------------------------------------------
(* The client: it writes an element, a file header or a data set, or reads  *)
(* a file, writes what it read and reads that again.                        *)

NoRead == [nil |-> TRUE, elems |-> <<>>, err |-> "", panic |-> FALSE, steps |-> <<>>]

\* names of character sets handed to ParseSpecificCharacterSet: "ISO_IR 100"
\* as the table spells it, with a leading blank, with a trailing blank, with
\* two blanks inside; "ISO_IR 144"; the empty name
EncodingNames ==
    { ISO_IR_100,
      <<32>> \o ISO_IR_100,
      ISO_IR_100 \o <<32>>,
      <<73, 83, 79, 95, 73, 82, 32, 32, 49, 48, 48>>,
      <<73, 83, 79, 95, 73, 82, 32, 49, 52, 52>>,
      <<>> }

EncodingNameLists == SeqsUpTo(EncodingNames, MaxNames)

NoParse == [called |-> FALSE, encodingNames |-> <<>>, CP1250Fix |-> FALSE,
            cs |-> <<"", "", "">>]

Init ==
    /\ phase = "idle"
    /\ arg = <<>>
    /\ wopts = [SkipVRVerification |-> FALSE]
    /\ ts0 = <<"nil", "UnknownVR">>
    /\ enc = NewEncoder
    /\ werr = ""
    /\ file = <<>>
    /\ ropts = DefaultReadOptions
    /\ rd = NoRead
    /\ rd2 = NoRead
    /\ pcs = NoParse

\* WriteElement(e, elem, opts) on a fresh encoder of some transfer syntax
DoWriteElement ==
    /\ phase = "idle"
    /\ \E elem \in WriteElems, ts \in TransferSyntaxes, o \in WriteOptSets :
          /\ arg' = <<elem>>
          /\ wopts' = o
          /\ ts0' = ts
          /\ enc' = WriteElement(NewBytesEncoder(ts[1], ts[2]), elem, o)
          /\ werr' = enc'.err
    /\ phase' = "wroteElement"
    /\ UNCHANGED <<file, ropts, rd, rd2, pcs>>

\* WriteFileHeader(e, metaElems, opts) on a fresh encoder of some transfer syntax
DoWriteFileHeader ==
    /\ phase = "idle"
    /\ \E m \in MetaLists, ts \in TransferSyntaxes, o \in WriteOptSets :
          /\ arg' = m
          /\ wopts' = o
          /\ ts0' = ts
          /\ enc' = WriteFileHeader(NewBytesEncoder(ts[1], ts[2]), m, o)
          /\ werr' = enc'.err
    /\ phase' = "wroteHeader"
    /\ UNCHANGED <<file, ropts, rd, rd2, pcs>>

\* the client builds a data set
BuildDataSet ==
    /\ phase = "idle"
    /\ \E ds \in ClientDataSets : arg' = ds
    /\ phase' = "built"
    /\ UNCHANGED <<wopts, ts0, enc, werr, file, ropts, rd, rd2, pcs>>

\* ReadDataSet(in, options)
DoReadDataSet ==
    /\ phase = "idle"
    /\ \E f \in Files, o \in ReadOptionSets :
          /\ file' = f
          /\ ropts' = o
          /\ rd' = ReadDataSet(f, o)
          /\ arg' = rd'.elems
    /\ phase' = "read"
    /\ UNCHANGED <<wopts, ts0, enc, werr, rd2, pcs>>

\* WriteDataSet(out, ds, opts...) of the data set built or read
DoWriteDataSet ==
    /\ \/ phase = "built"
       \/ phase = "read" /\ ~rd.nil /\ ~rd.panic
    /\ \E o \in WriteOptSets :
          /\ wopts' = o
          /\ \E w \in {WriteDataSet(arg, o)} :
                /\ enc' = w.e
                /\ werr' = w.err
    /\ phase' = "wroteDataSet"
    /\ UNCHANGED <<arg, ts0, file, ropts, rd, rd2, pcs>>

\* ReadDataSet of the bytes written, with the options of the first read
DoReadBack ==
    /\ phase = "wroteDataSet"
    /\ werr = ""
    /\ ~enc.panic
    /\ rd2' = ReadDataSet(enc.out, ropts)
    /\ phase' = "readBack"
    /\ UNCHANGED <<arg, wopts, ts0, enc, werr, file, ropts, rd, pcs>>

\* a call of ParseSpecificCharacterSet by the client
DoParseSpecificCharacterSet ==
    /\ phase = "idle"
    /\ \E names \in EncodingNameLists, fix \in BOOLEAN :
          pcs' = [called |-> TRUE, encodingNames |-> names, CP1250Fix |-> fix,
                  cs |-> ParseSpecificCharacterSet(names, fix)]
    /\ phase' = "parsed"
    /\ UNCHANGED <<arg, wopts, ts0, enc, werr, file, ropts, rd, rd2>>

Next ==
    \/ DoWriteElement
    \/ DoWriteFileHeader
    \/ BuildDataSet
    \/ DoReadDataSet
    \/ DoWriteDataSet
    \/ DoReadBack
    \/ DoParseSpecificCharacterSet

Spec == Init /\ [][Next]_vars

\* the client that only writes
WriterNext ==
    \/ DoWriteElement
    \/ DoWriteFileHeader
    \/ BuildDataSet
    \/ DoWriteDataSet

WriterSpec == Init /\ [][WriterNext]_vars

\* the client that only reads
ReaderNext == DoReadDataSet

ReaderSpec == Init /\ [][ReaderNext]_vars

\* the client that only parses character set names
CharsetNext == DoParseSpecificCharacterSet

CharsetSpec == Init /\ [][CharsetNext]_vars

-----------------------------------------------------------------------------
(* Properties of the writer *)

Wrote == phase \in {"wroteElement", "wroteHeader", "wroteDataSet"}

\* C2 (as stated): in every byte stream produced by WriteElement,
\* WriteFileHeader or WriteDataSet the length field of every emitted element
\* header, the Items of pixel-data frames and of the Basic Offset Table
\* included, is the undefined-length sentinel 0xFFFFFFFF or an even number
LengthsEven ==
    Wrote => \A i \in 1..Len(enc.hdrs) :
                 enc.hdrs[i].field = undefinedLength \/ enc.hdrs[i].field % 2 = 0

\* an odd-length text was written: its header carries the padded length
LengthsEvenWitness ==
    /\ phase = "wroteElement"
    /\ werr = ""
    /\ arg[1].tag = PatientID
    /\ arg[1].value = <<Str(<<65>>)>>
    /\ Len(enc.hdrs) = 1
    /\ enc.hdrs[1].field = 2
    /\ Len(enc.out) = 10

\* C3: in the meta block WriteFileHeader writes, every group-0002 tag occurs
\* at most once, whatever the metaElems list, and the other group-2 elements
\* come after the six standard ones
MetaTagsOccurOnce ==
    (phase = "wroteHeader" /\ werr = "" /\ ~enc.panic) =>
        /\ \A i, j \in 1..Len(enc.hdrs) : i # j => enc.hdrs[i].tag # enc.hdrs[j].tag
        /\ \A i \in 1..Len(enc.hdrs) : i > 7 <=> enc.hdrs[i].tag \notin tagsUsed

RequiredMissing(metaElems) ==
    \E t \in {MediaStorageSOPClassUID, MediaStorageSOPInstanceUID, TransferSyntaxUID} :
        FindElementByTag(metaElems, t) = 0

\* C4: when metaElems lacks MediaStorageSOPClassUID, MediaStorageSOPInstanceUID
\* or TransferSyntaxUID, WriteFileHeader sets an error on the output encoder
\* and writes no byte to it, and WriteDataSet returns that error and emits no
\* body element
MissingRequiredMeta ==
    /\ (phase = "wroteHeader" /\ RequiredMissing(arg)) =>
           enc.err # "" /\ enc.out = <<>> /\ enc.hdrs = <<>>
    /\ (phase = "wroteDataSet" /\ RequiredMissing(SelectMeta(arg))) =>
           werr # "" /\ werr = enc.err /\ enc.out = <<>> /\ enc.hdrs = <<>>

\* a data set with body elements and no TransferSyntaxUID was handed to WriteDataSet
MissingRequiredMetaWitness ==
    /\ phase = "wroteDataSet"
    /\ FindElementByTag(arg, TransferSyntaxUID) = 0
    /\ FindElementByTag(arg, MediaStorageSOPClassUID) # 0
    /\ \E i \in 1..Len(arg) : arg[i].tag = PatientID
    /\ werr = "required meta element not found"
    /\ enc.out = <<>>

\* the headers of an encoder tile its output from byte 'from' on, and each is
\* an Explicit-VR little-endian header
TiledExplicitLE(e, from) ==
    /\ e.hdrs # <<>>
    /\ e.hdrs[1].at = from
    /\ \A i \in 1..Len(e.hdrs) :
          /\ SubSeq(e.out, e.hdrs[i].at + 1, e.hdrs[i].end)
             = RawHeader(ELE, e.hdrs[i].tag, e.hdrs[i].vr, e.hdrs[i].vl)
          /\ e.hdrs[i].end + e.hdrs[i].vl
             = (IF i = Len(e.hdrs) THEN Len(e.out) ELSE e.hdrs[i + 1].at)

\* C5: on success WriteFileHeader writes 128 zero bytes, "DICM", a
\* FileMetaInformationGroupLength element whose value is the number of meta
\* bytes after it, then the meta bytes, all elements Explicit-VR little-endian
\* whatever the encoder's transfer syntax; the transfer-syntax stack is as at
\* entry when the call returns, on the error path too
HeaderLayout ==
    phase = "wroteHeader" =>
        /\ enc.bo = ts0[1] /\ enc.implicit = ts0[2] /\ enc.old = <<>>
        /\ (werr = "" /\ ~enc.panic) =>
              /\ Len(enc.out) >= 144
              /\ SubSeq(enc.out, 1, 128) = [i \in 1..128 |-> 0]
              /\ SubSeq(enc.out, 129, 132) = <<68, 73, 67, 77>>
              /\ SubSeq(enc.out, 133, 144)
                 = <<2, 0, 0, 0, 85, 76, 4, 0>> \o U32Bytes("LE", Len(enc.out) - 144)
              /\ enc.hdrs[1].tag = FileMetaInformationGroupLength
              /\ TiledExplicitLE(enc, 132)

\* a header was written through an encoder whose transfer syntax is big-endian
HeaderLayoutWitness ==
    /\ phase = "wroteHeader"
    /\ werr = ""
    /\ ts0 = <<"BE", "ExplicitVR">>
    /\ Len(enc.hdrs) = 8
    /\ Len(enc.out) > 144

\* a header that stopped on a missing element was written under Implicit VR
HeaderLayoutErrorWitness ==
    /\ phase = "wroteHeader"
    /\ werr # ""
    /\ ts0 = <<"LE", "ImplicitVR">>
    /\ enc.implicit = "ImplicitVR"

\* C6: after the header WriteDataSet writes no element of an odd (private)
\* group, at the top level or inside a written SQ or Item
NoPrivateWritten ==
    (phase = "wroteDataSet" /\ werr = "" /\ ~enc.panic) =>
        \A i \in 1..Len(enc.hdrs) : enc.hdrs[i].tag[1] % 2 = 0

\* the header of the element written is first in the stream and carries vr
UsesVR(vr) ==
    /\ (enc.err = "" /\ ~enc.panic) => enc.hdrs # <<>>
    /\ enc.hdrs # <<>> =>
          /\ enc.hdrs[1].tag = arg[1].tag
          /\ enc.hdrs[1].vr = vr
          /\ enc.hdrs[1].at = 0
          /\ ts0[2] = "ExplicitVR" => SubSeq(enc.out, 5, 6) = VRBytes(vr)

VRDiffers(elem) == elem.vr # "" /\ FindVR(elem.tag) # "" /\ elem.vr # FindVR(elem.tag)

SameKind(elem) == GetVRKind(elem.tag, FindVR(elem.tag)) = GetVRKind(elem.tag, elem.vr)

\* C7: for a supplied VR that differs from the dictionary VR, WriteElement
\* (a) with verification on and VRs of different kinds sets an error and
\* writes nothing, (b) with verification on and VRs of one kind writes the
\* element with the supplied VR, (c) with SkipVRVerification reports no VR
\* mismatch and uses the supplied VR; an element with an empty VR is written
\* with the dictionary VR, or UN when the tag is unknown
VRVerification ==
    phase = "wroteElement" =>
        /\ (VRDiffers(arg[1]) /\ ~wopts.SkipVRVerification /\ ~SameKind(arg[1])) =>
               enc.err = "VR mismatch" /\ enc.out = <<>> /\ enc.hdrs = <<>>
        /\ (VRDiffers(arg[1]) /\ ~wopts.SkipVRVerification /\ SameKind(arg[1])) =>
               enc.err # "VR mismatch" /\ UsesVR(arg[1].vr)
        /\ (arg[1].vr # "" /\ wopts.SkipVRVerification) =>
               enc.err # "VR mismatch" /\ UsesVR(arg[1].vr)
        /\ arg[1].vr = "" =>
               /\ enc.err # "VR mismatch"
               /\ UsesVR(IF FindVR(arg[1].tag) = "" THEN "UN" ELSE FindVR(arg[1].tag))

\* PatientID (LO in the dictionary) was handed over as US and refused
VRVerificationWitness ==
    /\ phase = "wroteElement"
    /\ arg[1].tag = PatientID
    /\ arg[1].vr = "US"
    /\ ~wopts.SkipVRVerification
    /\ enc.err = "VR mismatch"

\* PatientID was handed over as SH and written as SH
VRVerificationSameKindWitness ==
    /\ phase = "wroteElement"
    /\ arg[1].tag = PatientID
    /\ arg[1].vr = "SH"
    /\ ~wopts.SkipVRVerification
    /\ ts0[2] = "ExplicitVR"
    /\ werr = ""
    /\ SubSeq(enc.out, 5, 6) = <<83, 72>>

\* the VR WriteElement encodes elem with
WrittenVR(elem, opts) == verifyVROrDefault(elem.tag, elem.vr, opts).vr

\* a value whose dynamic type is not the one its VR takes
TypeMismatch(vr, v) ==
    IF vr \in {"US", "UL", "SL", "SS", "FL", "OF", "FD", "OD"} THEN v.k # NumKind(vr)
    ELSE IF vr \in {"OB", "OW"} THEN v.k # "bytes"
    ELSE IF vr = "UN" THEN FALSE
    ELSE v.k # "str"

\* C8: when a value of the element has a dynamic type that does not match the
\* VR, WriteElement sets an error and writes neither header nor payload
ValueTypeMismatchFatal ==
    (/\ phase = "wroteElement"
     /\ arg[1].tag # PixelData
     /\ verifyVROrDefault(arg[1].tag, arg[1].vr, wopts).err = ""
     /\ WrittenVR(arg[1], wopts) \notin {"SQ", "NA"}
     /\ ~arg[1].undef
     /\ \E i \in 1..Len(arg[1].value) :
           TypeMismatch(WrittenVR(arg[1], wopts), arg[1].value[i]))
    => enc.err # "" /\ enc.out = <<>>

Delimiters == {ItemDelimitationItem, SequenceDelimitationItem}

NoExtent == [next |-> 0, end |-> 0, ok |-> FALSE]

RECURSIVE Extent(_, _, _)

\* the elements from hs[i] on tile the bytes from pos to limit, none of them
\* a delimitation item
RECURSIVE Sized(_, _, _, _)
Sized(hs, i, pos, limit) ==
    IF pos = limit THEN [next |-> i, end |-> pos, ok |-> TRUE]
    ELSE IF i > Len(hs) \/ pos > limit THEN NoExtent
    ELSE IF hs[i].at # pos \/ hs[i].tag \in Delimiters THEN NoExtent
    ELSE LET x == Extent(hs, i, FALSE)
         IN  IF ~x.ok THEN NoExtent ELSE Sized(hs, x.next, x.end, limit)

\* the elements from hs[i] on follow each other from pos up to the
\* delimitation item closer, which has length 0
RECURSIVE Delimited(_, _, _, _, _)
Delimited(hs, i, pos, closer, raw) ==
    IF i > Len(hs) THEN NoExtent
    ELSE IF hs[i].at # pos THEN NoExtent
    ELSE IF hs[i].tag = closer
    THEN [next |-> i + 1, end |-> hs[i].end, ok |-> hs[i].vl = 0]
    ELSE IF hs[i].tag \in Delimiters \/ (raw /\ hs[i].tag # Item) THEN NoExtent
    ELSE LET x == Extent(hs, i, raw)
         IN  IF ~x.ok THEN NoExtent ELSE Delimited(hs, x.next, x.end, closer, raw)

\* the element whose header is hs[i]: the index after its last header, the
\* offset after its last byte, and whether it is well formed; raw: an Item of
\* encapsulated pixel data
Extent(hs, i, raw) ==
    IF hs[i].vl = undefinedLength
    THEN Delimited(hs, i + 1, hs[i].end,
                   IF hs[i].tag = Item THEN ItemDelimitationItem
                   ELSE SequenceDelimitationItem,
                   hs[i].tag = PixelData)
    ELSE IF ~raw /\ hs[i].vr \in {"SQ", "NA"} /\ hs[i].tag # PixelData
    THEN Sized(hs, i + 1, hs[i].end, hs[i].end + hs[i].vl)
    ELSE [next |-> i + 1, end |-> hs[i].end + hs[i].vl, ok |-> TRUE]

\* the stream of an encoder is one well-nested element
WellNested(e) ==
    /\ e.hdrs # <<>>
    /\ e.hdrs[1].at = 0
    /\ Extent(e.hdrs, 1, FALSE).ok
    /\ Extent(e.hdrs, 1, FALSE).next = Len(e.hdrs) + 1
    /\ Extent(e.hdrs, 1, FALSE).end = Len(e.out)

\* encapsulated pixel data: the Basic Offset Table Item and one Item per frame
FrameItems(e, elem) ==
    (elem.tag = PixelData /\ elem.undef) =>
        /\ Len(e.hdrs) = Len(elem.value[1].f) + 3
        /\ \A i \in 2..(Len(e.hdrs) - 1) : e.hdrs[i].tag = Item
        /\ e.hdrs[2].vl = 4 * Len(elem.value[1].s)

PixelDelimiterWitness ==
    /\ phase = "wroteElement"
    /\ werr = ""
    /\ arg[1].tag = PixelData /\ arg[1].undef
    /\ Len(enc.hdrs) = 5
    /\ enc.hdrs[5].tag = SequenceDelimitationItem

-----------------------------------------------------------------------------
(* Properties of the reader *)

IsBody(elem) == elem.tag[1] # MetadataGroup

\* what ReadDataSet returns for the same bytes and options without StopAtTag
Unstopped == ReadDataSet(file, [ropts EXCEPT !.StopAtTag = <<>>])

\* the index of the first body element of elems with a tag >= stop
\* (Len(elems) + 1 when there is none)
FirstAtOrAfter(elems, stop) ==
    IF \E i \in 1..Len(elems) : IsBody(elems[i]) /\ TagGeq(elems[i].tag, stop)
    THEN CHOOSE i \in 1..Len(elems) :
             /\ IsBody(elems[i]) /\ TagGeq(elems[i].tag, stop)
             /\ \A j \in 1..(i - 1) : ~(IsBody(elems[j]) /\ TagGeq(elems[j].tag, stop))
    ELSE Len(elems) + 1

\* C10: with StopAtTag set, ReadDataSet stops without an error at the first
\* body element whose tag is >= StopAtTag in lexicographic (group, element)
\* order: the DataSet returned holds no body element with such a tag and is
\* a prefix of what the same read without StopAtTag returns, so it holds
\* every element returned before the stop; with no ReturnTags whitelist it
\* is exactly what precedes the first body element with a tag >= StopAtTag,
\* and stopping there is no error
StopAtTagStops ==
    (phase = "read" /\ ropts.StopAtTag # <<>> /\ ~rd.nil /\ ~rd.panic) =>
        /\ \A i \in 1..Len(rd.elems) :
              IsBody(rd.elems[i]) => ~TagGeq(rd.elems[i].tag, ropts.StopAtTag)
        /\ \E unstopped \in {Unstopped} :
              /\ Len(rd.elems) <= Len(unstopped.elems)
              /\ rd.elems = SubSeq(unstopped.elems, 1, Len(rd.elems))
              /\ unstopped.err = "" => rd.err = ""
              /\ ~ropts.ReturnTagsSet =>
                    \E first \in {FirstAtOrAfter(unstopped.elems, ropts.StopAtTag)} :
                        /\ Len(rd.elems) = first - 1
                        /\ first <= Len(unstopped.elems) => rd.err = ""

\* a file whose body is (0008,0005), (0028,0010) was read with StopAtTag
\* (0010,0020): the read stopped at (0028,0010), whose element number is
\* below the one of StopAtTag
StopAtTagWitness ==
    /\ phase = "read"
    /\ ropts.StopAtTag = PatientID
    /\ ~rd.nil /\ rd.err = ""
    /\ Len(rd.elems) = 5
    /\ rd.elems[5].tag = SpecificCharacterSet
    /\ Len(Unstopped.elems) = 6
    /\ Unstopped.elems[6].tag = Rows

\* what ReadDataSet returns for the same bytes and options without ReturnTags
Unfiltered == ReadDataSet(file, [ropts EXCEPT !.ReturnTagsSet = FALSE, !.ReturnTags = <<>>])

BodyOf(elems) == SelectSeq(elems, IsBody)

\* C11: with ReturnTags set, every body element of the DataSet returned has a
\* tag on the list, every body element read with a tag on the list is
\* returned, in stream order and as the read without the whitelist returns
\* it, and an element that is filtered out keeps its side effects: a
\* SpecificCharacterSet element off the list installs the charset and marks
\* it known for the elements after it
ReturnTagsWhitelist ==
    (phase = "read" /\ ropts.ReturnTagsSet /\ ~rd.nil /\ ~rd.panic) =>
        /\ \A i \in 1..Len(rd.elems) :
              IsBody(rd.elems[i]) => tagInList(rd.elems[i].tag, ropts.ReturnTags)
        /\ \A k \in 1..Len(rd.steps) :
              rd.steps[k].kind = "elem" =>
                  (rd.steps[k].kept <=> tagInList(rd.steps[k].raw.tag, ropts.ReturnTags))
        /\ \E unfiltered \in {Unfiltered} :
              /\ BodyOf(rd.elems)
                 = SelectSeq(BodyOf(unfiltered.elems),
                             LAMBDA el : tagInList(el.tag, ropts.ReturnTags))
              /\ Len(rd.steps) = Len(unfiltered.steps)
              /\ \A k \in 1..Len(rd.steps) :
                    rd.steps[k].charsetSet = unfiltered.steps[k].charsetSet
              /\ rd.err = unfiltered.err
        /\ \A k \in 1..Len(rd.steps) :
              (rd.steps[k].kind = "elem" /\ rd.steps[k].raw.tag = SpecificCharacterSet
               /\ GetCleanStrings(rd.steps[k].raw)[1]) => rd.steps[k].charsetSet

\* a file whose body is (0008,0005) "ISO_IR 144", (0010,0010) was read with
\* ReturnTags = [(0010,0010)]: the character set element is not returned and
\* the name is decoded with the character set it installed
ReturnTagsWitness ==
    /\ phase = "read"
    /\ ropts.ReturnTagsSet /\ ropts.ReturnTags = <<PatientName>>
    /\ ~rd.nil /\ rd.err = ""
    /\ Len(rd.steps) = 2
    /\ rd.steps[1].raw.tag = SpecificCharacterSet
    /\ ~rd.steps[1].kept /\ rd.steps[1].charsetSet
    /\ BodyOf(rd.elems)
       = <<Elem(PatientName, "PN", FALSE,
                <<Str(<<208, 176, 209, 133, 209, 146, 226, 132, 150>>)>>)>>

\* the iteration read a SpecificCharacterSet element and installed it
Installed(step) ==
    step.kind = "elem" /\ step.raw.tag = SpecificCharacterSet /\ GetCleanStrings(step.raw)[1]

\* the auto-detection replaced the value of the element the iteration read
Altered(step) == step.kind = "elem" /\ step.auto # step.raw

\* C12: Cyrillic auto-detection replaces a value only while no
\* SpecificCharacterSet element has been installed earlier in the read; once
\* one is installed the charset-known flag stays true to the end of the read
\* and neither that element nor a later one is altered by auto-detection
CharsetScope ==
    (phase = "read" /\ ~rd.nil) =>
        \A k \in 1..Len(rd.steps) :
            /\ (\E j \in 1..k : Installed(rd.steps[j])) <=> rd.steps[k].charsetSet
            /\ Altered(rd.steps[k]) => ~(\E j \in 1..k : Installed(rd.steps[j]))

\* after an empty SpecificCharacterSet (the default repertoire) a text with
\* bytes that are no UTF-8 was read and left as it is
CharsetScopeWitness ==
    /\ phase = "read"
    /\ ~rd.nil /\ Len(rd.steps) = 2
    /\ Installed(rd.steps[1])
    /\ rd.steps[2].kind = "elem" /\ rd.steps[2].raw.tag = PatientID
    /\ rd.steps[2].raw.value[1] = Str(<<208, 229>>)
    /\ containsGarbage(rd.steps[2].raw.value[1].s)
    /\ ~Altered(rd.steps[2])
    /\ rd.steps[2].charsetSet

\* the same text read before any SpecificCharacterSet was replaced
CharsetScopeAlteredWitness ==
    /\ phase = "read"
    /\ ~rd.nil /\ Len(rd.steps) = 2
    /\ rd.steps[1].raw.tag = PatientID /\ Altered(rd.steps[1])
    /\ Installed(rd.steps[2])

\* C13: every iteration of the element loop of ReadDataSet either moves the
\* cursor strictly forward or is the last one (end of data, dropped pixel
\* data, or the no-progress panic); an iteration starts where the one before
\* it stopped, so no two start at the same position, there are at most as many
\* iterations as the input has bytes, and an iteration whose read returned nil
\* for a parse error is the last one
CursorProgress ==
    (phase = "read" /\ ~rd.nil) =>
        /\ Len(rd.steps) <= Len(file)
        /\ rd.panic <=> (rd.steps # <<>> /\ rd.steps[Len(rd.steps)].kind = "panic")
        /\ \A k \in 1..Len(rd.steps) :
              /\ rd.steps[k].to > rd.steps[k].from
                 \/ (rd.steps[k].kind = "panic" /\ k = Len(rd.steps))
              /\ rd.steps[k].to <= Len(file)
              /\ rd.steps[k].kind \in {"end", "panic"} => k = Len(rd.steps)
              /\ rd.steps[k].kind = "nil" => (rd.steps[k].err # "" /\ k = Len(rd.steps))
              /\ k < Len(rd.steps) =>
                    /\ rd.steps[k + 1].from = rd.steps[k].to
                    /\ rd.steps[k + 1].from > rd.steps[k].from

\* a read of an element was cut short by the end of the input: it returned
\* nil, the cursor had moved, and the loop ended after one element and this
CursorProgressWitness ==
    /\ phase = "read"
    /\ ~rd.nil /\ ~rd.panic /\ Len(rd.steps) = 2
    /\ rd.steps[1].kind = "elem"
    /\ rd.steps[2].kind = "nil" /\ rd.steps[2].to > rd.steps[2].from
    /\ rd.err # ""

\* a read that consumed nothing: the loop ended with the panic
CursorProgressPanicWitness ==
    /\ phase = "read"
    /\ rd.panic /\ Len(rd.steps) = 2
    /\ rd.steps[2].kind = "panic" /\ rd.steps[2].to = rd.steps[2].from

\* the first iteration of the element loop that left an error on the decoder
FirstFailed(steps) ==
    CHOOSE k \in 1..Len(steps) :
        steps[k].err # "" /\ \A j \in 1..(k - 1) : steps[j].err = ""

CP1250FixMaps ==
    (phase = "parsed" /\ pcs.called) =>
        \A i \in 1..Len(pcs.encodingNames) :
            NormalizeName(pcs.encodingNames[i]) = ISO_IR_100 =>
                pcs.cs[i] = IF pcs.CP1250Fix THEN "windows-1250" ELSE "iso-8859-1"

\* the part of C15 that holds: the name spelled exactly "ISO_IR 100" is mapped
\* to windows-1250 with CP1250Fix and to iso-8859-1 without, and without
\* CP1250Fix every spelling of it is mapped to iso-8859-1
CP1250FixExactName ==
    (phase = "parsed" /\ pcs.called) =>
        \A i \in 1..Len(pcs.encodingNames) :
            /\ pcs.encodingNames[i] = ISO_IR_100 =>
                  pcs.cs[i] = IF pcs.CP1250Fix THEN "windows-1250" ELSE "iso-8859-1"
            /\ (NormalizeName(pcs.encodingNames[i]) = ISO_IR_100 /\ ~pcs.CP1250Fix) =>
                  pcs.cs[i] = "iso-8859-1"

\* with CP1250Fix, " ISO_IR 100" was mapped to iso-8859-1 next to "ISO_IR 100"
\* mapped to windows-1250
CP1250FixWhitespaceWitness ==
    /\ phase = "parsed"
    /\ pcs.CP1250Fix
    /\ pcs.encodingNames = << <<32>> \o ISO_IR_100, ISO_IR_100 >>
    /\ pcs.cs = <<"iso-8859-1", "windows-1250", "windows-1250">>

\* C16: for every leaf element WriteElement writes with a defined length, the
\* length field of the header, as wide as it was written, is the number of
\* value bytes that follow the header, also when the value takes 65536 bytes
\* or more under a VR with a 2-byte length field
HeaderLengthMatchesPayload ==
    (phase = "wroteElement" /\ werr = "" /\ ~enc.panic
     /\ Len(enc.hdrs) = 1 /\ enc.hdrs[1].vl # undefinedLength) =>
        enc.hdrs[1].field = Len(enc.out) - enc.hdrs[1].end

\* the part of C16 that holds: the length handed to encodeElementHeader is
\* the number of value bytes written after the header, and the field holds
\* that length modulo 2^16 in the short form and the length itself otherwise
HeaderLengthModulo ==
    (phase = "wroteElement" /\ werr = "" /\ ~enc.panic
     /\ Len(enc.hdrs) = 1 /\ enc.hdrs[1].vl # undefinedLength) =>
        /\ enc.hdrs[1].vl = Len(enc.out) - enc.hdrs[1].end
        /\ enc.hdrs[1].field
           = IF ts0[2] = "ExplicitVR" /\ enc.hdrs[1].vr \notin LongVRs
             THEN enc.hdrs[1].vl % 65536 ELSE enc.hdrs[1].vl

\* a value of 65536 bytes was written under LO in Explicit VR: the 2-byte
\* length field holds 0 and 65536 bytes follow it
HeaderLengthWrapWitness ==
    /\ phase = "wroteElement"
    /\ werr = "" /\ ~enc.panic
    /\ ts0[2] = "ExplicitVR"
    /\ Len(enc.hdrs) = 1 /\ enc.hdrs[1].vr = "LO"
    /\ enc.hdrs[1].field = 0
    /\ Len(enc.out) = 8 + 65536

\* the element handed to WriteElement is a leaf with UndefinedLength whose VR
\* resolves to UN
UNUndefined ==
    /\ phase = "wroteElement"
    /\ arg[1].undef
    /\ arg[1].tag # PixelData
    /\ verifyVROrDefault(arg[1].tag, arg[1].vr, wopts) = [vr |-> "UN", err |-> ""]

\* C17: for an element whose VR resolves to UN and whose UndefinedLength is
\* true, WriteElement writes no byte and sets no error
UNUndefinedDropped == UNUndefined => (enc.out = <<>> /\ werr = "" /\ ~enc.panic)

\* the part of C17 that holds: no error is set and no byte of the value is
\* written; what is written is one header with length 0
UNUndefinedValueDropped ==
    UNUndefined =>
        /\ werr = "" /\ ~enc.panic
        /\ Len(enc.hdrs) = 1
        /\ enc.hdrs[1].vr = "UN" /\ enc.hdrs[1].vl = 0 /\ enc.hdrs[1].at = 0
        /\ enc.hdrs[1].end = Len(enc.out)
        /\ Len(enc.out) = IF ts0[2] = "ExplicitVR" THEN 12 ELSE 8

\* a private element with VR UN, undefined length and a value was written in
\* Explicit VR little endian: the output is a 12-byte header with length 0
UNUndefinedHeaderWitness ==
    /\ UNUndefined
    /\ arg[1].tag = PrivateCreator /\ arg[1].value = <<Bytes(<<1, 2>>)>>
    /\ ts0 = <<"LE", "ExplicitVR">>
    /\ enc.out = <<9, 0, 16, 0, 85, 78, 0, 0, 0, 0, 0, 0>>

\* C18: when ReadDataSet applies the Cyrillic auto-detection to an element of
\* n values, the element has n values afterwards and the values after the
\* first are the ones that were read
AutoDetectKeepsOtherValues ==
    (phase = "read" /\ ~rd.nil) =>
        \A k \in 1..Len(rd.steps) :
            Altered(rd.steps[k]) =>
                /\ Len(rd.steps[k].auto.value) = Len(rd.steps[k].raw.value)
                /\ \A i \in 2..Len(rd.steps[k].raw.value) :
                      rd.steps[k].auto.value[i] = rd.steps[k].raw.value[i]

\* what the auto-detection does: the value list becomes the one decoded text,
\* which differs from the first value read; tag and VR stay
AutoDetectReplacesList ==
    (phase = "read" /\ ~rd.nil) =>
        \A k \in 1..Len(rd.steps) :
            Altered(rd.steps[k]) =>
                /\ Len(rd.steps[k].auto.value) = 1
                /\ rd.steps[k].auto.value[1].k = "str"
                /\ rd.steps[k].auto.value[1] # rd.steps[k].raw.value[1]
                /\ rd.steps[k].auto.tag = rd.steps[k].raw.tag
                /\ rd.steps[k].auto.vr = rd.steps[k].raw.vr

\* a PatientID of two values, the first of them no UTF-8, was read with no
\* character set known: one value is left and the second value read is gone
AutoDetectDropsWitness ==
    /\ phase = "read"
    /\ ~rd.nil /\ Len(rd.steps) = 1
    /\ rd.steps[1].raw.tag = PatientID
    /\ rd.steps[1].raw.value = <<Str(<<208, 229>>), Str(<<65>>)>>
    /\ Altered(rd.steps[1])
    /\ Len(rd.steps[1].auto.value) = 1
    /\ Len(rd.elems[Len(rd.elems)].value) = 1

-----------------------------------------------------------------------------
(* Round trip *)

\* C1 (as stated): a DataSet that ReadDataSet returned without an error,
\* written by WriteDataSet and read again with the same options, comes back
\* with the same elements in the same order, private and UN elements included
RoundTrip ==
    (phase = "readBack" /\ file # <<>> /\ rd.err = "") =>
        rd2.err = "" /\ rd2.elems = rd.elems

=============================================================================
